---- MODULE Spec2Model ----
(***************************************************************************)
(* FiDcomp: the three compression stages of src/src/compress_utils.py      *)
(* (compress_contexts, compress_sentences, compress_tokens) as a state     *)
(* machine.  Text is a sequence of characters over a letter, a full stop,  *)
(* a space and a newline; the                                              *)
(* three tokenizers (nltk sent_tokenize, the tiktoken length tokenizer and *)
(* the scoring tokenizer) are operators over such sequences.  Python       *)
(* indices are kept 0-based as values and shifted by one where a TLA+      *)
(* sequence is indexed.  Floating-point scores are kept as integers that   *)
(* are proportional to the scores (a common denominator), and every        *)
(* comparison and share is computed exactly on them.                       *)
(***************************************************************************)
EXTENDS Integers, Sequences, FiniteSets, TLC

VARIABLES
    pc,                    \* position in the pipeline
    err,                   \* "none" or the Python exception that ended the call
    args,                  \* the configuration record
    ctxs,                  \* the passage list (ctx dicts)
    batch_scores,          \* per passage: the score row
    batch_token_ids,       \* per passage: the token-id row
    ctx_scores,            \* compress_contexts: aggregate score per passage
    ctx_indices_sorted,    \* passages by descending score (0-based)
    ctx_indices,           \* compress_contexts: selected passages, selection order
    len_total,             \* compress_contexts: running rendered length
    cursor,                \* position of the running loop (0-based)
    org_ctxs,              \* the passage list as it was given to the call
    target_len,            \* compress_tokens: number of top-scoring positions
    sorted_target_indices, \* compress_tokens: those positions, ascending
    cur_target_indices,    \* compress_tokens: per passage, the positions kept
    new_batch_token_ids_filtered, \* compress_tokens: per passage, the ids decoded
    sents_list,            \* compress_sentences: per passage, the sentences
    split_token_ctxs,      \* per passage, the separator before each sentence
    batch_scores_context,  \* per passage, the content slice of the score row
    batch_token_ids_context, \* per passage, the content slice of the id row
    sent_scores_ctxs,      \* per passage, the pooled score slice of each sentence
    sent_token_ids_ctxs,   \* per passage, the pooled id slice of each sentence
    comp_len_per_ctx,      \* the budget of each rank
    total_comp_len,        \* reference tokens dropped so far
    ctx_removal_indices,   \* positions of the passages to remove
    new_scores_ctxs,       \* idx -> scores kept; the reordered list at the end
    new_token_ids_ctxs,    \* idx -> ids kept; the reordered list at the end
    iter_locals,           \* idx -> the locals of its loop iteration
    encode_fails           \* positions of the passages whose sentences the
                           \* scoring tokenizer fails to batch-encode

ctxVars == <<ctx_scores, ctx_indices_sorted, ctx_indices, len_total>>
tokVars == <<target_len, sorted_target_indices, cur_target_indices,
            new_batch_token_ids_filtered>>
sentVars == <<sents_list, split_token_ctxs, batch_scores_context, batch_token_ids_context,
             sent_scores_ctxs, sent_token_ids_ctxs, comp_len_per_ctx, total_comp_len,
             ctx_removal_indices, new_scores_ctxs, new_token_ids_ctxs, iter_locals>>
vars == <<pc, err, args, encode_fails, ctxs, org_ctxs, batch_scores, batch_token_ids, ctxVars, cursor,
          tokVars, sentVars>>

----------------------------------------------------------------------------
(* Bounds of the model *)

MaxCtx == 3            \* passages per call of compress_contexts
MaxCtxCompLen == 8     \* largest ctx_comp_len
CumsumDen == 4         \* ctx_score_cumsum ranges over k / CumsumDen

(* Token counts of the fixed strings around a passage (scoring tokenizer) *)
QuestionTokLen == 1    \* tokens of "question: {q}"
TitleTokLen == 1       \* further tokens of " title: {t}"
PatternTokLen == 1     \* tokens of pattern_str
QuestionCut == 252     \* encode(question)[-252:]
EmptyPromptLen == 1    \* reference-tokenizer length of the prompt without passages

None == "None"

----------------------------------------------------------------------------
(* Sequence helpers *)

Min(a, b) == IF a < b THEN a ELSE b
Max(a, b) == IF a > b THEN a ELSE b
Abs(a) == IF a < 0 THEN -a ELSE a

RECURSIVE SumSeq(_)
SumSeq(s) == IF s = <<>> THEN 0 ELSE Head(s) + SumSeq(Tail(s))

RECURSIVE ProdSeq(_)
ProdSeq(s) == IF s = <<>> THEN 1 ELSE Head(s) * ProdSeq(Tail(s))

RECURSIVE Concat(_)
Concat(ss) == IF ss = <<>> THEN <<>> ELSE Head(ss) \o Concat(Tail(ss))

Range(s) == {s[i] : i \in DOMAIN s}

\* Python s[a:b] for 0 <= a, 0 <= b (indices clamp to the length)
PySlice(s, a, b) ==
    LET lo == Min(a, Len(s))
        hi == Min(b, Len(s))
    IN  IF hi <= lo THEN <<>> ELSE SubSeq(s, lo + 1, hi)

\* Python s[a:]
PyFrom(s, a) == PySlice(s, a, Len(s))

\* the elements of s that satisfy Keep, in order
RECURSIVE SelectIdx(_, _)
SelectIdx(s, keep) ==
    IF s = <<>> THEN <<>>
    ELSE LET n == Len(s)
             front == SelectIdx(SubSeq(s, 1, n - 1), keep)
         IN  IF n \in keep THEN Append(front, s[n]) ELSE front

\* sorted(xs) for a sequence of distinct integers
RECURSIVE SortAsc(_)
SortAsc(xs) ==
    IF xs = <<>> THEN <<>>
    ELSE LET m == CHOOSE x \in Range(xs) : \A y \in Range(xs) : x <= y
         IN  <<m>> \o SortAsc(SelectSeq(xs, LAMBDA x : x # m))

Reverse(s) == [i \in 1..Len(s) |-> s[Len(s) + 1 - i]]

IsSubsequence(a, b) ==
    \E f \in [1..Len(a) -> 1..Len(b)] :
        /\ \A i \in 1..Len(a) : a[i] = b[f[i]]
        /\ \A i, j \in 1..Len(a) : i < j => f[i] < f[j]

----------------------------------------------------------------------------
(* np.argsort: indices (0-based) by ascending key; equal keys keep their   *)
(* index order (numpy sorts arrays this short by insertion).  Keys are     *)
(* fractions [num, den] compared by cross-multiplication.                  *)

FracLess(x, y) == x.num * y.den < y.num * x.den

RECURSIVE ArgsortFrom(_, _)
ArgsortFrom(keys, left) ==
    IF left = {} THEN <<>>
    ELSE LET m == CHOOSE i \in left : \A j \in left \ {i} :
                      \/ FracLess(keys[i + 1], keys[j + 1])
                      \/ (~FracLess(keys[j + 1], keys[i + 1]) /\ i < j)
         IN  <<m>> \o ArgsortFrom(keys, left \ {m})

ArgsortByPosition(keys) == [i \in 1..Len(keys) |-> i - 1]

\* np.argsort(keys): the 0-based indices in ascending order of key
Argsort(keys) == ArgsortFrom(keys, 0..(Len(keys) - 1))

IntKeys(xs) == [i \in 1..Len(xs) |-> [num |-> xs[i], den |-> 1]]

----------------------------------------------------------------------------
(* Text and the three tokenizers *)

Chars == {"a", ".", " ", "\n"}
Letters == {"a"}
Spaces == {" ", "\n"}
Newlines == {"\n"}
Puncts == {"."}
IsLetter(c) == c \in Letters
IsSpace(c) == c \in Spaces
IsPunct(c) == c \in Puncts

\* the position where the run of characters of cls that holds position p ends
RECURSIVE RunEnd(_, _, _)
RunEnd(s, p, cls) ==
    IF p + 1 <= Len(s) /\ s[p + 1] \in cls THEN RunEnd(s, p + 1, cls) ELSE p

\* GPT_TOKENIZER.encode splits the string into pre-tokens, each one token
\* here.  The pre-token that starts at position p (1-based) ends at
\* GptTokEnd(s, p), by the first alternative of the cl100k pattern that matches:
\*   [^\r\n\p{L}\p{N}]?\p{L}+     one optional non-letter, then a letter run
\*    ?[^\s\p{L}\p{N}]+[\r\n]*    an optional space, a punctuation run, newlines
\*   \s*[\r\n]                    whitespace up to its last newline
\*   \s+(?!\S)                    a whitespace run without its last character
\*                                when a non-space follows
\*   \s+                          whitespace
GptTokEnd(s, p) ==
    LET n == Len(s)
        e == RunEnd(s, p, Spaces)
        nls == {q \in p..e : s[q] \in Newlines}
    IN  IF IsLetter(s[p]) THEN RunEnd(s, p, Letters)
        ELSE IF s[p] \notin Newlines /\ p < n /\ IsLetter(s[p + 1])
        THEN RunEnd(s, p + 1, Letters)
        ELSE IF IsPunct(s[p]) THEN RunEnd(s, RunEnd(s, p, Puncts), Newlines)
        ELSE IF s[p] = " " /\ p < n /\ IsPunct(s[p + 1])
        THEN RunEnd(s, RunEnd(s, p + 1, Puncts), Newlines)
        ELSE IF nls # {} THEN CHOOSE q \in nls : \A q2 \in nls : q2 <= q
        ELSE IF e < n /\ e > p THEN e - 1 ELSE e

RECURSIVE GptCount(_, _)
GptCount(s, p) == IF p > Len(s) THEN 0 ELSE 1 + GptCount(s, GptTokEnd(s, p) + 1)

\* len(GPT_TOKENIZER.encode(s))
GPTLen(s) == GptCount(s, 1)

\* tokenizer.encode(sentence, add_special_tokens=False): the scoring tokenizer
\* normalises whitespace away; one piece per word and per punctuation run
RECURSIVE ScoreTokCount(_, _)
ScoreTokCount(s, p) ==
    IF p > Len(s) THEN 0
    ELSE IF IsSpace(s[p]) THEN ScoreTokCount(s, p + 1)
    ELSE IF IsLetter(s[p]) THEN 1 + ScoreTokCount(s, RunEnd(s, p, Letters) + 1)
    ELSE 1 + ScoreTokCount(s, RunEnd(s, p, Puncts) + 1)

ScoreTokLen(s) == ScoreTokCount(s, 1)

\* ids of the scoring tokenizer: 0 padding, 1 end of sequence, 2 the id that
\* compress_tokens filters out, 3 the empty span, 5 a word, 6 a punctuation run
WordId == 5
PunctId == 6

\* tokenizer.encode(text, add_special_tokens=False)
RECURSIVE ScoreTokIdsFrom(_, _)
ScoreTokIdsFrom(s, p) ==
    IF p > Len(s) THEN <<>>
    ELSE IF IsSpace(s[p]) THEN ScoreTokIdsFrom(s, p + 1)
    ELSE IF IsLetter(s[p]) THEN <<WordId>> \o ScoreTokIdsFrom(s, RunEnd(s, p, Letters) + 1)
    ELSE <<PunctId>> \o ScoreTokIdsFrom(s, RunEnd(s, p, Puncts) + 1)

ScoreTokIds(s) == ScoreTokIdsFrom(s, 1)

\* tokenizer.decode: a word piece carries its leading space, the empty span
\* is a space, the special ids give nothing; the leading space is dropped
Piece(id) ==
    CASE id = WordId  -> <<" ", "a">>
      [] id = PunctId -> <<".">>
      [] id = 3       -> <<" ">>
      [] OTHER        -> <<>>

Decode(ids) ==
    LET raw == Concat([k \in DOMAIN ids |-> Piece(ids[k])])
    IN  IF raw # <<>> /\ IsSpace(raw[1]) THEN Tail(raw) ELSE raw

\* re.sub(r' {2,}', ' ', text)
RECURSIVE CollapseSpaces(_)
CollapseSpaces(t) ==
    IF Len(t) < 2 THEN t
    ELSE IF IsSpace(t[1]) /\ IsSpace(t[2]) THEN CollapseSpaces(Tail(t))
    ELSE <<t[1]>> \o CollapseSpaces(Tail(t))

\* length of s without its trailing whitespace (str.rstrip)
RECURSIVE RStripLen(_)
RStripLen(s) ==
    IF s = <<>> THEN 0
    ELSE IF IsSpace(s[Len(s)]) THEN RStripLen(SubSeq(s, 1, Len(s) - 1))
    ELSE Len(s)

\* nltk sent_tokenize: a sentence ends after a punctuation mark that is
\* followed by whitespace and a further token; the next sentence starts at that
\* token; the last sentence loses the trailing whitespace; no empty sentence
RECURSIVE SentSlices(_, _, _)
SentSlices(t, start, p) ==
    LET r == RStripLen(t)
    IN  IF p > r
        THEN IF start <= r THEN <<SubSeq(t, start, r)>> ELSE <<>>
        ELSE IF IsPunct(t[p]) /\ p < r /\ IsSpace(t[p + 1])
        THEN LET nxt == RunEnd(t, p, Spaces) + 1
             IN  <<SubSeq(t, start, p)>> \o SentSlices(t, nxt, nxt)
        ELSE SentSlices(t, start, p + 1)

sent_tokenize(t) == SentSlices(t, 1, 1)

\* str.find: the 0-based index of the first occurrence of needle, or -1
RECURSIVE FindFrom(_, _, _)
FindFrom(hay, needle, k) ==
    IF k + Len(needle) > Len(hay) THEN -1
    ELSE IF SubSeq(hay, k + 1, k + Len(needle)) = needle THEN k
    ELSE FindFrom(hay, needle, k + 1)

Find(hay, needle) == FindFrom(hay, needle, 0)

\* the separators before each sentence: split_token_ctx of compress_sentences
RECURSIVE SplitTokensFrom(_, _, _)
SplitTokensFrom(ctx_text, sents, sent_index) ==
    IF sent_index + 1 >= Len(sents) THEN <<>>
    ELSE LET len_prev_sent == Len(sents[sent_index + 1])
             cur_sent == sents[sent_index + 2]
             found == Find(PyFrom(ctx_text, len_prev_sent), cur_sent)
             cur_sent_start_idx == len_prev_sent + found
             split_token == PySlice(ctx_text, len_prev_sent, Max(cur_sent_start_idx, 0))
         IN  <<split_token>> \o
             SplitTokensFrom(PyFrom(ctx_text, Max(cur_sent_start_idx, 0)), sents, sent_index + 1)

split_tokens(text, sents) == <<<<>>>> \o SplitTokensFrom(text, sents, 0)

----------------------------------------------------------------------------
(* get_ctx_start_indices and get_ctx_scores.  A call returns [err, val].   *)

Ok(v) == [err |-> "none", val |-> v]
Raise(e) == [err |-> e, val |-> <<>>]

TitlesConsistentFirstPresent(titles) ==
    IF titles[1] # None
    THEN TRUE
    ELSE \A k \in DOMAIN titles : titles[k] = None

\* the assert on the titles: all present or all None
TitlesConsistent(titles) ==
    IF titles[1] # None
    THEN \A k \in DOMAIN titles : titles[k] # None
    ELSE \A k \in DOMAIN titles : titles[k] = None

get_ctx_start_indices(titles) ==
    IF titles = <<>> THEN Raise("IndexError")
    ELSE IF ~TitlesConsistent(titles) THEN Raise("AssertionError")
    ELSE IF titles[1] # None
    THEN Ok([k \in DOMAIN titles |-> QuestionTokLen + TitleTokLen + PatternTokLen])
    ELSE Ok([k \in DOMAIN titles |-> Min(QuestionTokLen, QuestionCut) + PatternTokLen])

NaN == [num |-> 0, den |-> 0]

\* scores[scores != 0][:end] and its mean, max or sum, as a fraction
NonZero(row) == SelectSeq(row, LAMBDA x : x # 0)

RECURSIVE MaxSeq(_)
MaxSeq(s) == IF Len(s) = 1 THEN s[1] ELSE Max(Head(s), MaxSeq(Tail(s)))

AggregateRow(row, mode, include_end_token) ==
    LET nz == NonZero(row)
        cut == IF include_end_token THEN nz ELSE PySlice(nz, 0, Len(nz) - 1)
    IN  CASE mode = "mean" -> Ok(IF cut = <<>> THEN NaN
                                 ELSE [num |-> SumSeq(cut), den |-> Len(cut)])
          [] mode = "max"  -> IF cut = <<>> THEN Raise("ValueError")
                              ELSE Ok([num |-> MaxSeq(cut), den |-> 1])
          [] mode = "sum"  -> Ok([num |-> SumSeq(cut), den |-> 1])
          [] OTHER         -> Raise("ValueError")

\* integers proportional to the fractions: num_i * prod of the other dens
Proportional(fracs) ==
    LET dens == [k \in DOMAIN fracs |-> fracs[k].den]
    IN  [k \in DOMAIN fracs |->
            fracs[k].num * ProdSeq([j \in DOMAIN fracs |-> IF j = k THEN 1 ELSE dens[j]])]

get_ctx_scores(rows, mode, question_mode, include_end_token, titles) ==
    LET starts == get_ctx_start_indices(titles)
        cut == IF question_mode = "include" THEN rows
               ELSE [k \in DOMAIN rows |-> PyFrom(rows[k], starts.val[k])]
        agg == [k \in DOMAIN rows |-> AggregateRow(cut[k], mode, include_end_token)]
    IN  IF question_mode \notin {"include", "exclude"} THEN Raise("ValueError")
        ELSE IF question_mode = "exclude" /\ starts.err # "none" THEN Raise(starts.err)
        ELSE IF \E k \in DOMAIN rows : agg[k].err # "none"
        THEN Raise(agg[CHOOSE k \in DOMAIN rows :
                           agg[k].err # "none" /\ \A j \in 1..(k - 1) : agg[j].err = "none"].err)
        ELSE Ok(Proportional([k \in DOMAIN rows |-> agg[k].val]))

----------------------------------------------------------------------------
(* compress_contexts *)

\* stand-in for "Document [{idx}](Title: {title}) ": a word, a mark, a space
DocPrefix == <<"a", ".", " ">>

\* the reference-tokenizer length of a passage as compress_contexts renders it
RenderedLen(longbench, text) ==
    IF longbench THEN GPTLen(text) ELSE GPTLen(DocPrefix \o text)

\* np.argsort(ctx_scores)[::-1]
ArgsortDesc(scores) == Reverse(Argsort(IntKeys(scores)))

\* sum of the k first scores in descending order
CumSum(scores, order, k) == SumSeq([m \in 1..k |-> scores[order[m] + 1]])

\* np.where(cumsum > ctx_score_cumsum)[0]: the 0-based positions, the
\* threshold being cumsum_num / CumsumDen and the scores normalised by their sum
WhereCumsumAbove(scores, cumsum_num) ==
    LET order == ArgsortDesc(scores)
    IN  {j \in 0..(Len(scores) - 1) :
            CumSum(scores, order, j + 1) * CumsumDen > cumsum_num * SumSeq(scores)}

\* faulty variant: the commented-out line 176 (">=" search aside), first hit + 1
CumCtxIndexPlusOne(scores, cumsum_num) ==
    LET hits == WhereCumsumAbove(scores, cumsum_num)
    IN  (CHOOSE j \in hits : \A h \in hits : j <= h) + 1

\* cum_ctx_index: the first such position, and 1 for 0
CumCtxIndex(scores, cumsum_num) ==
    LET hits == WhereCumsumAbove(scores, cumsum_num)
        first == CHOOSE j \in hits : \A h \in hits : j <= h
    IN  IF first = 0 THEN 1 ELSE first

\* faulty variant: the loop never stops before adding
StopBeforeAddingNever(comp_sent, lt, len_ctx, ctx_comp_len) == FALSE

\* the "chunk only" test that ends the greedy loop before adding a passage
StopBeforeAdding(comp_sent, lt, len_ctx, ctx_comp_len) ==
    ~comp_sent /\ Abs(lt - ctx_comp_len) < Abs(lt + len_ctx - ctx_comp_len)

StopAfterAddingAbove(lt, ctx_comp_len) == lt > ctx_comp_len

\* line 197: the test that ends the greedy loop after adding a passage
StopAfterAdding(lt, ctx_comp_len) == lt >= ctx_comp_len

\* the original order never restored
CtxIndicesSelectedAsRanked(do_sort_ctx, indices) == indices

\* ctx_indices_selected
CtxIndicesSelected(do_sort_ctx, indices) ==
    IF do_sort_ctx THEN indices ELSE SortAsc(indices)

Greedy == args.ctx_score_cumsum = <<>>

CtxScores ==
    /\ pc = "ctx_scores"
    /\ LET r == get_ctx_scores(batch_scores, args.ctx_score_mode, args.question_mode,
                               args.include_end_token,
                               [k \in DOMAIN ctxs |-> ctxs[k].title])
       IN  IF r.err # "none"
           THEN /\ pc' = "error"
                /\ err' = r.err
                /\ UNCHANGED ctxVars
           ELSE /\ ctx_scores' = r.val
                /\ ctx_indices_sorted' = ArgsortDesc(r.val)
                /\ ctx_indices' = <<>>
                /\ len_total' = EmptyPromptLen
                /\ pc' = IF ~Greedy THEN "ctx_percentile"
                         ELSE IF r.val = <<>> THEN "ctx_return" ELSE "ctx_greedy"
                /\ err' = err
    /\ cursor' = 0
    /\ UNCHANGED <<args, encode_fails, ctxs, org_ctxs, batch_scores, batch_token_ids, tokVars, sentVars>>

CtxPercentile ==
    /\ pc = "ctx_percentile"
    /\ IF WhereCumsumAbove(ctx_scores, args.ctx_score_cumsum[1]) = {}
       THEN /\ pc' = "error"
            /\ err' = "IndexError"
            /\ UNCHANGED ctx_indices
       ELSE /\ ctx_indices' = PySlice(ArgsortDesc(ctx_scores), 0,
                                      CumCtxIndex(ctx_scores, args.ctx_score_cumsum[1]))
            /\ pc' = "ctx_return"
            /\ err' = err
    /\ UNCHANGED <<args, encode_fails, ctxs, org_ctxs, batch_scores, batch_token_ids, ctx_scores,
                   ctx_indices_sorted, len_total, cursor, tokVars, sentVars>>

\* one iteration of "for idx in ctx_indices_sorted"
CtxGreedyStep ==
    /\ pc = "ctx_greedy"
    /\ LET idx == ctx_indices_sorted[cursor + 1]
           len_ctx == RenderedLen(args.longbench, ctxs[idx + 1].text)
       IN  IF StopBeforeAdding(args.comp_sent, len_total, len_ctx, args.ctx_comp_len)
           THEN /\ pc' = "ctx_return"
                /\ UNCHANGED <<len_total, ctx_indices, cursor>>
           ELSE /\ len_total' = len_total + len_ctx
                /\ ctx_indices' = Append(ctx_indices, idx)
                /\ cursor' = cursor + 1
                /\ pc' = IF StopAfterAdding(len_total + len_ctx, args.ctx_comp_len)
                            \/ cursor + 1 = Len(ctx_indices_sorted)
                         THEN "ctx_return" ELSE "ctx_greedy"
    /\ UNCHANGED <<err, args, encode_fails, ctxs, org_ctxs, batch_scores, batch_token_ids, ctx_scores,
                   ctx_indices_sorted, tokVars, sentVars>>

\* lines 201-215: annotate, order, filter and return
CtxReturn ==
    /\ pc = "ctx_return"
    /\ LET annotated == [k \in DOMAIN ctxs |->
                            IF (k - 1) \in Range(ctx_indices)
                            THEN [ctxs[k] EXCEPT !.ctx_score = ctx_scores[k]]
                            ELSE ctxs[k]]
           selected == CtxIndicesSelected(args.do_sort_ctx, ctx_indices)
       IN  /\ ctxs' = [k \in DOMAIN selected |-> annotated[selected[k] + 1]]
           /\ batch_scores' = [k \in DOMAIN selected |-> batch_scores[selected[k] + 1]]
           /\ batch_token_ids' = [k \in DOMAIN selected |-> batch_token_ids[selected[k] + 1]]
    /\ pc' = "ctx_done"
    /\ UNCHANGED <<err, args, encode_fails, org_ctxs, ctxVars, cursor, tokVars, sentVars>>

----------------------------------------------------------------------------
(* Inputs *)

\* ctx_score_cumsum is <<>> for None and <<k>> for the threshold k / CumsumDen
NoCumsum == <<>>

\* the rows the scorer hands over for a passage: the tokens of
\* "question: q [title: t] <pattern>", the content tokens, the end-of-sequence
\* token (id 1) and one padding position (score 0, id 0)
PrefixLen(title) ==
    IF title # None THEN QuestionTokLen + TitleTokLen + PatternTokLen
    ELSE Min(QuestionTokLen, QuestionCut) + PatternTokLen

ScoreRow(title, content_scores, end_score) ==
    [k \in 1..PrefixLen(title) |-> end_score] \o content_scores \o <<end_score, 0>>

IdRow(title, content_ids) ==
    [k \in 1..PrefixLen(title) |-> 9] \o content_ids \o <<1, 0>>

Passage(i, title, text) ==
    [org_idx |-> i, title |-> title, text |-> text, ctx_score |-> -1]

DefaultArgs ==
    [do_sort_ctx |-> FALSE, ctx_score_mode |-> "mean", question_mode |-> "include",
     include_end_token |-> FALSE, longbench |-> FALSE, comp_sent |-> FALSE,
     ctx_comp_len |-> 0, ctx_score_cumsum |-> NoCumsum,
     sent_comp_len |-> 0, adaptive_sent_comp |-> FALSE, pow |-> 1,
     constraint_1_sent |-> FALSE, token_lamb |-> [num |-> 1, den |-> 1]]

\* the locals of a stage that has not run
CtxIdle ==
    /\ ctx_scores = <<>>
    /\ ctx_indices_sorted = <<>>
    /\ ctx_indices = <<>>
    /\ len_total = 0

TokIdle ==
    /\ target_len = 0
    /\ sorted_target_indices = <<>>
    /\ cur_target_indices = <<>>
    /\ new_batch_token_ids_filtered = <<>>

SentIdle ==
    /\ sents_list = <<>>
    /\ split_token_ctxs = <<>>
    /\ batch_scores_context = <<>>
    /\ batch_token_ids_context = <<>>
    /\ sent_scores_ctxs = <<>>
    /\ sent_token_ids_ctxs = <<>>
    /\ comp_len_per_ctx = <<>>
    /\ total_comp_len = 0
    /\ ctx_removal_indices = <<>>
    /\ new_scores_ctxs = <<>>
    /\ new_token_ids_ctxs = <<>>
    /\ iter_locals = <<>>

\* compress_contexts: passages with an aggregate score of 1, 4 or 5 (every
\* token of the row has that score) and a text of one or two sentences
CtxScoreVals == {1, 4, 5}
CtxTexts == {<<"a", ".">>, <<"a", ".", " ", "a", ".">>}
CtxPool == [v : CtxScoreVals, text : CtxTexts]

\* the mode strings: the valid ones and one that is not
CtxScoreModes == {"mean", "max", "sum", "median"}
QuestionModes == {"include", "exclude", "only"}

CtxArgs ==
    {[DefaultArgs EXCEPT !.do_sort_ctx = ds, !.comp_sent = cs, !.longbench = lb,
                         !.ctx_comp_len = cl] :
        ds \in BOOLEAN, cs \in BOOLEAN, lb \in BOOLEAN, cl \in 0..MaxCtxCompLen}
    \cup
    {[DefaultArgs EXCEPT !.do_sort_ctx = ds, !.ctx_score_cumsum = <<k>>] :
        ds \in BOOLEAN, k \in 0..(CumsumDen + 1)}
    \cup
    {[a EXCEPT !.ctx_score_mode = m, !.question_mode = q] :
        a \in {[DefaultArgs EXCEPT !.ctx_comp_len = 6],
                [DefaultArgs EXCEPT !.ctx_score_cumsum = <<2>>]},
        m \in CtxScoreModes, q \in QuestionModes}

InitCtx ==
    /\ encode_fails = {}
    /\ pc = "ctx_scores"
    /\ err = "none"
    /\ args \in CtxArgs
    /\ \E n \in 0..MaxCtx : \E ps \in [1..n -> CtxPool] :
        /\ ctxs = [i \in 1..n |-> Passage(i, "t", ps[i].text)]
        /\ batch_scores = [i \in 1..n |->
              ScoreRow("t", [k \in 1..ScoreTokLen(ps[i].text) |-> ps[i].v], ps[i].v)]
        /\ batch_token_ids = [i \in 1..n |->
              IdRow("t", ScoreTokIds(ps[i].text))]
    /\ org_ctxs = ctxs
    /\ ctx_scores = <<>>
    /\ ctx_indices_sorted = <<>>
    /\ ctx_indices = <<>>
    /\ len_total = 0
    /\ cursor = 0
    /\ TokIdle
    /\ SentIdle

NextCtx ==
    \/ CtxScores
    \/ CtxPercentile
    \/ CtxGreedyStep
    \/ CtxReturn

SpecCtx == InitCtx /\ [][NextCtx]_vars

----------------------------------------------------------------------------
(* Properties of compress_contexts *)

OrgIdxSeq(passages) == [k \in DOMAIN passages |-> passages[k].org_idx]

CtxDone == pc = "ctx_done"

\* the prompt length of the returned passages, as the greedy loop measures it
ReturnedTotal ==
    EmptyPromptLen + SumSeq([k \in DOMAIN ctxs |-> RenderedLen(args.longbench, ctxs[k].text)])

LastSelectedLen ==
    RenderedLen(args.longbench, org_ctxs[ctx_indices[Len(ctx_indices)] + 1].text)

FartherThanOneShorter ==
    Abs(ReturnedTotal - args.ctx_comp_len) >
        Abs(ReturnedTotal - LastSelectedLen - args.ctx_comp_len)

\* C2: in greedy mode, a returned selection whose total rendered length is
\* farther from ctx_comp_len than the total without the last selected passage
\* occurs only with comp_sent enabled.
C2_BudgetMonotone ==
    (CtxDone /\ Greedy /\ ctx_indices # <<>> /\ FartherThanOneShorter) => args.comp_sent

\* the last passage was added across the target, and kept because that is closer
C2_Witness ==
    /\ CtxDone /\ Greedy /\ ~args.comp_sent
    /\ Len(ctx_indices) >= 2
    /\ ReturnedTotal > args.ctx_comp_len
    /\ ReturnedTotal - LastSelectedLen < args.ctx_comp_len

\* number of prefixes of the descending order whose cumulative normalised
\* score does not exceed the threshold
PrefixesNotAbove ==
    Cardinality({j \in 1..Len(ctx_scores) :
        CumSum(ctx_scores, ctx_indices_sorted, j) * CumsumDen
            <= args.ctx_score_cumsum[1] * SumSeq(ctx_scores)})

\* scores proportional to [0.1, 0.5, 0.4] and a threshold of 0.5
Scenario154 ==
    /\ ~Greedy
    /\ Len(ctx_scores) = 3
    /\ ctx_scores[2] = 5 * ctx_scores[1]
    /\ ctx_scores[3] = 4 * ctx_scores[1]
    /\ 2 * args.ctx_score_cumsum[1] = CumsumDen

RetainedOrgIdx == {ctxs[k].org_idx : k \in DOMAIN ctxs}

\* C3 as stated: the retained passages are the prefix up to and including the
\* first passage at which the cumulative sum exceeds the threshold; for
\* [0.1, 0.5, 0.4] and 0.5 the passages with scores 0.5 and 0.4 are retained.
C3_PrefixIncludingFirstAbove ==
    (CtxDone /\ ~Greedy) =>
        /\ ctx_indices = SubSeq(ctx_indices_sorted, 1, PrefixesNotAbove + 1)
        /\ Scenario154 => RetainedOrgIdx = {2, 3}

\* C3 amended: the retained passages are the prefix of the descending order
\* that ends just before the first passage at which the cumulative normalised
\* score exceeds the threshold, and the first passage alone when that prefix is
\* empty; for [0.1, 0.5, 0.4] and 0.5 only the passage with score 0.5 is retained.
C3_PrefixBeforeFirstAbove ==
    (CtxDone /\ ~Greedy) =>
        /\ ctx_indices = SubSeq(ctx_indices_sorted, 1, Max(1, PrefixesNotAbove))
        /\ Scenario154 => RetainedOrgIdx = {2}

C3_Witness == CtxDone /\ Scenario154 /\ ctx_indices = <<1>>

\* C4: in percentile mode a non-empty passage list never ends in an error of
\* the threshold search, and the returned selection is never empty.
C4_AtLeastOneRetained ==
    (~Greedy /\ org_ctxs # <<>>) =>
        /\ ~(pc = "error" /\ err = "IndexError")
        /\ CtxDone => ctxs # <<>>

InvalidMode ==
    \/ args.question_mode \notin {"include", "exclude"}
    \/ args.ctx_score_mode \notin {"mean", "max", "sum"}

NoCtxScoreAssigned == \A k \in DOMAIN ctxs : ctxs[k].ctx_score = -1

\* C11: a question_mode other than include/exclude or a ctx_score_mode other
\* than mean/max/sum makes compress_contexts fail with an error before any
\* work: the call never gets past the scoring, no passage is selected and no
\* passage gets a ctx_score.
C11_InvalidModeFailsFirst ==
    InvalidMode =>
        /\ pc \in {"ctx_scores", "error"}
        /\ ctx_indices = <<>>
        /\ NoCtxScoreAssigned

\* the error of the scripts' main for an example without documents
NoDocumentsError == "ValueError: Did not find any documents"

\* C12: with an empty passage list compress_contexts ends, in every mode, in
\* the dedicated no-documents error, not in an empty selection and not in
\* another error.
C12_EmptyListRejected ==
    (org_ctxs = <<>> /\ pc # "ctx_scores") => (pc = "error" /\ err = NoDocumentsError)

\* the returned index list is in descending score order
IndicesDescendingScore ==
    \A j, k \in DOMAIN ctx_indices :
        j < k => ctx_scores[ctx_indices[j] + 1] >= ctx_scores[ctx_indices[k] + 1]

\* the returned passages are those of the indices xs, in that order, each with
\* its ctx_score, and the returned rows are theirs
ReturnedInOrder(xs) ==
    /\ Len(ctxs) = Len(xs)
    /\ Len(batch_scores) = Len(xs)
    /\ Len(batch_token_ids) = Len(xs)
    /\ \A k \in DOMAIN xs :
          /\ ctxs[k].org_idx = xs[k] + 1
          /\ ctxs[k].ctx_score = ctx_scores[xs[k] + 1]
          /\ ctxs[k].ctx_score # -1
          /\ batch_token_ids[k] = IdRow(ctxs[k].title, ScoreTokIds(ctxs[k].text))
    /\ \A j, k \in DOMAIN xs :
          (ctxs[j].ctx_score < ctxs[k].ctx_score) <=> (batch_scores[j][1] < batch_scores[k][1])

\* C13 as stated: the returned index list is in the order chosen by the flag,
\* the order of the returned passages and rows (descending score with
\* do_sort_ctx, original relative order without), and every returned passage
\* carries a ctx_score.
C13_IndicesInFlagOrder ==
    CtxDone =>
        /\ ReturnedInOrder(ctx_indices)
        /\ args.do_sort_ctx => IndicesDescendingScore
        /\ ~args.do_sort_ctx => ctx_indices = SortAsc(ctx_indices)

\* C13 amended: the returned passages and rows are in the order chosen by the
\* flag (descending score with do_sort_ctx, original relative order without)
\* and every returned passage carries a ctx_score; the returned index list is
\* in descending score order whatever the flag.
C13_IndicesInScoreOrder ==
    CtxDone =>
        /\ IndicesDescendingScore
        /\ args.do_sort_ctx => ReturnedInOrder(ctx_indices)
        /\ ~args.do_sort_ctx => ReturnedInOrder(SortAsc(ctx_indices))

\* without do_sort_ctx, three passages returned in input order while the index
\* list is in another order
C13_Witness ==
    /\ CtxDone
    /\ ~args.do_sort_ctx
    /\ Len(ctx_indices) = 3
    /\ ctx_indices # SortAsc(ctx_indices)
    /\ OrgIdxSeq(ctxs) = <<1, 2, 3>>

\* the greedy loop has started
GreedyStarted == Greedy /\ pc \in {"ctx_greedy", "ctx_return", "ctx_done"}

SelectedLen(k) == RenderedLen(args.longbench, org_ctxs[ctx_indices[k] + 1].text)

\* len_total when the k-th selected passage was reached
TotalBefore(k) == EmptyPromptLen + SumSeq([j \in 1..(k - 1) |-> SelectedLen(j)])

\* the passages were visited in descending score order
VisitedInScoreOrder ==
    /\ ctx_indices = SubSeq(ctx_indices_sorted, 1, Len(ctx_indices))
    /\ \A k \in 1..(Len(ctx_indices_sorted) - 1) :
          ctx_scores[ctx_indices_sorted[k] + 1] >= ctx_scores[ctx_indices_sorted[k + 1] + 1]

\* C18 as stated: in greedy mode the passages are visited in descending score
\* order and no passage is selected when the running total before it was
\* already at or above ctx_comp_len, with comp_sent on or off.
C18_NeverAddsAtTarget ==
    GreedyStarted =>
        /\ VisitedInScoreOrder
        /\ \A k \in DOMAIN ctx_indices : TotalBefore(k) < args.ctx_comp_len

\* C18 amended: in greedy mode the passages are visited in descending score
\* order and the loop goes on to a next passage only while the running total
\* is below ctx_comp_len; a passage is selected at a running total at or
\* above ctx_comp_len only when it is the first of the order and comp_sent is
\* on or the passage adds no tokens, and with comp_sent on the first passage
\* is selected whatever the total is.
C18_OnlyFirstAddedAtTarget ==
    GreedyStarted =>
        /\ VisitedInScoreOrder
        /\ (pc = "ctx_greedy" /\ cursor >= 1) => len_total < args.ctx_comp_len
        /\ \A k \in DOMAIN ctx_indices :
              TotalBefore(k) >= args.ctx_comp_len =>
                  /\ k = 1
                  /\ args.comp_sent \/ SelectedLen(k) = 0
        /\ (pc # "ctx_greedy" /\ args.comp_sent /\ ctx_indices_sorted # <<>>) =>
              ctx_indices # <<>>

\* with comp_sent on and a target no larger than the empty prompt, the top
\* passage of three was selected and the loop stopped
C18_Witness ==
    /\ CtxDone /\ Greedy /\ args.comp_sent
    /\ args.ctx_comp_len <= EmptyPromptLen
    /\ Len(org_ctxs) = 3
    /\ ctx_indices = <<ctx_indices_sorted[1]>>

----------------------------------------------------------------------------
(* compress_sentences: pure parts *)

\* cum_len_list
CumLens(lens) == [k \in DOMAIN lens |-> SumSeq(SubSeq(lens, 1, k))]

\* np.where(token_ids == 1)[0]: the 0-based positions of id 1
EosPositions(ids) == {q \in 0..(Len(ids) - 1) : ids[q + 1] = 1}

SetMax(S) == CHOOSE x \in S : \A y \in S : y <= x

\* the pooling loop without "start_idx = cum_len"
RECURSIVE PoolFromNoUpdate(_, _, _, _)
PoolFromNoUpdate(cum_len_list, k, start_idx, n) ==
    IF k > Len(cum_len_list) THEN <<>>
    ELSE IF start_idx >= n THEN PoolFromNoUpdate(cum_len_list, k + 1, start_idx, n)
    ELSE <<[lo |-> start_idx, hi |-> cum_len_list[k]]>>
         \o PoolFromNoUpdate(cum_len_list, k + 1, start_idx, n)

\* the slices [lo, hi) of the content array that the pooling loop cuts at the
\* cumulative sentence lengths; a sentence that starts at or after the end of
\* the content array gets no slice
RECURSIVE PoolFrom(_, _, _, _)
PoolFrom(cum_len_list, k, start_idx, n) ==
    IF k > Len(cum_len_list) THEN <<>>
    ELSE IF start_idx >= n THEN PoolFrom(cum_len_list, k + 1, start_idx, n)
    ELSE <<[lo |-> start_idx, hi |-> cum_len_list[k]]>>
         \o PoolFrom(cum_len_list, k + 1, cum_len_list[k], n)

\* sent_scores_ctx / sent_token_idx_ctx of one passage
PoolSentences(context, sent_len_list) ==
    LET cuts == PoolFrom(CumLens(sent_len_list), 1, 0, Len(context))
    IN  [j \in DOMAIN cuts |-> PySlice(context, cuts[j].lo, cuts[j].hi)]

\* np.mean of a slice, as a fraction
Mean(xs) == IF xs = <<>> THEN NaN ELSE [num |-> SumSeq(xs), den |-> Len(xs)]

RECURSIVE Pow(_, _)
Pow(x, e) == IF e = 0 THEN 1 ELSE x * Pow(x, e - 1)

\* the adaptive budgets left in the order of the passages
AdaptiveCompLensUnsorted(scores, pow, sent_comp_len) ==
    LET w == [k \in DOMAIN scores |-> Pow(scores[k], pow)]
        others(k) == ProdSeq([j \in DOMAIN w |-> IF j = k THEN 1 ELSE w[j]])
        total == SumSeq([k \in DOMAIN w |-> others(k)])
    IN  [k \in DOMAIN w |-> (others(k) * sent_comp_len) \div total]

\* the adaptive budgets: ((1/s_i^pow) / sum_j (1/s_j^pow)) * sent_comp_len,
\* truncated to an integer and sorted ascending
AdaptiveCompLens(scores, pow, sent_comp_len) ==
    LET w == [k \in DOMAIN scores |-> Pow(scores[k], pow)]
        others(k) == ProdSeq([j \in DOMAIN w |-> IF j = k THEN 1 ELSE w[j]])
        total == SumSeq([k \in DOMAIN w |-> others(k)])
        share == [k \in DOMAIN w |-> (others(k) * sent_comp_len) \div total]
        order == Argsort(IntKeys(share))
    IN  [k \in DOMAIN share |-> share[order[k] + 1]]

\* the uniform share computed over one passage too many
InitialCompLensOffByOne(adaptive_sent_comp, scores, pow, sent_comp_len) ==
    IF adaptive_sent_comp /\ Len(scores) > 1
    THEN AdaptiveCompLens(scores, pow, sent_comp_len)
    ELSE [k \in DOMAIN scores |-> sent_comp_len \div (Len(scores) + 1)]

\* comp_len_per_ctx before the loop
InitialCompLens(adaptive_sent_comp, scores, pow, sent_comp_len) ==
    IF adaptive_sent_comp /\ Len(scores) > 1
    THEN AdaptiveCompLens(scores, pow, sent_comp_len)
    ELSE [k \in DOMAIN scores |-> sent_comp_len \div Len(scores)]

\* ctx_len / after_sent_comp_len
SentRenderedLen(title, text) ==
    IF title # None THEN GPTLen(DocPrefix \o text) ELSE GPTLen(text)

\* the loop without the check of lines 363-368
RECURSIVE DropLoopNoRestore(_, _, _, _, _, _)
DropLoopNoRestore(lens, k, cur, total, sent_comp_len, comp_len) ==
    IF k = Len(lens) THEN [r |-> k, cur |-> cur, total |-> total]
    ELSE LET cur_sent_len == lens[k + 1]
             cur1 == cur + cur_sent_len
             total1 == total + cur_sent_len
         IN  IF total1 >= sent_comp_len \/ cur1 >= comp_len
             THEN [r |-> k + 1, cur |-> cur1, total |-> total1]
             ELSE DropLoopNoRestore(lens, k + 1, cur1, total1, sent_comp_len, comp_len)

\* the sentence-dropping loop over the sentences in ascending score order:
\* lens[k] is cur_sent_len of the k-th of them.  The result is r after
\* "r = r + 1" with cur_comp_len and total_comp_len.
RECURSIVE DropLoop(_, _, _, _, _, _)
DropLoop(lens, k, cur, total, sent_comp_len, comp_len) ==
    IF k = Len(lens) THEN [r |-> k, cur |-> cur, total |-> total]
    ELSE LET cur_sent_len == lens[k + 1]
             cur1 == cur + cur_sent_len
             total1 == total + cur_sent_len
         IN  IF total1 >= sent_comp_len
             THEN IF Abs(total1 - cur_sent_len - sent_comp_len) < Abs(total1 - sent_comp_len)
                  THEN [r |-> k, cur |-> cur, total |-> total]
                  ELSE [r |-> k + 1, cur |-> cur1, total |-> total1]
             ELSE IF cur1 >= comp_len
             THEN [r |-> k + 1, cur |-> cur1, total |-> total1]
             ELSE DropLoop(lens, k + 1, cur1, total1, sent_comp_len, comp_len)

\* the constraint left out
ApplyConstraintOff(constraint_1_sent, r, num_sents) == r

\* "if constraint_1_sent == True and r == len(argsort_sent): r = r - 1"
ApplyConstraint(constraint_1_sent, r, num_sents) ==
    IF constraint_1_sent /\ r = num_sents THEN r - 1 ELSE r

\* the sentences joined with single spaces instead of the recovered separators
RebuildTextSpaceJoined(split_token_ctx, sents, sent_indices_selected, rest_sents) ==
    Concat([k \in DOMAIN sent_indices_selected |->
               (IF k = 1 THEN <<>> ELSE <<" ">>) \o sents[sent_indices_selected[k] + 1]])
    \o Concat([k \in DOMAIN rest_sents |-> <<" ">> \o rest_sents[k]])

\* sent_comp_text: the selected sentences, each after its separator, then the
\* rest sentences, each after its separator
RebuildText(split_token_ctx, sents, sent_indices_selected, rest_sents) ==
    Concat([k \in DOMAIN sent_indices_selected |->
               split_token_ctx[sent_indices_selected[k] + 1]
                   \o sents[sent_indices_selected[k] + 1]])
    \o Concat([k \in DOMAIN rest_sents |->
               split_token_ctx[k + Len(sents)] \o rest_sents[k]])

\* the reduction that does not stop at the rank of the current passage
RECURSIVE ReduceAllRanks(_, _, _, _)
ReduceAllRanks(lens, r_i, rank, exceed_len) ==
    IF r_i >= Len(lens) \/ exceed_len = 0 THEN lens
    ELSE IF lens[r_i + 1] > 0
    THEN ReduceAllRanks([lens EXCEPT ![r_i + 1] = Max(0, lens[r_i + 1] - exceed_len)],
                        r_i + 1, rank, Max(0, exceed_len - lens[r_i + 1]))
    ELSE ReduceAllRanks(lens, r_i + 1, rank, exceed_len)

\* "Dealing exceed cur_comp_len": budgets of the ranks before rank are reduced
RECURSIVE ReduceFromTop(_, _, _, _)
ReduceFromTop(lens, r_i, rank, exceed_len) ==
    IF r_i >= Len(lens) \/ exceed_len = 0 \/ r_i = rank THEN lens
    ELSE IF lens[r_i + 1] > 0
    THEN ReduceFromTop([lens EXCEPT ![r_i + 1] = Max(0, lens[r_i + 1] - exceed_len)],
                       r_i + 1, rank, Max(0, exceed_len - lens[r_i + 1]))
    ELSE ReduceFromTop(lens, r_i + 1, rank, exceed_len)

ReconcileRollsForward(lens, rank, comp_len, cur_comp_len) ==
    IF cur_comp_len > comp_len
    THEN IF rank = 0 THEN lens
         ELSE [lens EXCEPT ![rank] = lens[rank] + cur_comp_len - comp_len]
    ELSE ReduceFromTop(lens, 0, rank, comp_len - cur_comp_len)

\* lines 409-423
Reconcile(lens, rank, comp_len, cur_comp_len) ==
    IF cur_comp_len > comp_len
    THEN ReduceFromTop(lens, 0, rank, cur_comp_len - comp_len)
    ELSE IF rank = 0 THEN lens
    ELSE [lens EXCEPT ![rank] = lens[rank] + comp_len - cur_comp_len]

----------------------------------------------------------------------------
(* compress_sentences: the call *)

\* line 272: the token count of every sentence of the k-th passage
SentLenList(sents, k) == [j \in DOMAIN sents[k] |-> ScoreTokLen(sents[k][j])]

\* lines 270-276: when batch_encode_plus raises for the k-th passage the bare
\* except runs embed(), which returns when its shell is left, and line 276
\* reads sent_len_list as the last assignment left it: the passage (1-based)
\* whose sentence lengths the k-th passage is pooled with, 0 when
\* sent_len_list was never assigned
LastEncoded(k) == SetMax({0} \cup {j \in 1..k : (j - 1) \notin encode_fails})

\* lines 226-321: everything before the loop
SentPrepare ==
    /\ pc = "sent_prepare"
    /\ LET starts == get_ctx_start_indices([k \in DOMAIN ctxs |-> ctxs[k].title])
           rows == DOMAIN batch_token_ids
           eos(k) == SetMax(EosPositions(batch_token_ids[k]))
           scores_context == [k \in rows |-> PySlice(batch_scores[k], starts.val[k], eos(k))]
           ids_context == [k \in rows |-> PySlice(batch_token_ids[k], starts.val[k], eos(k))]
           sents == [k \in DOMAIN ctxs |-> sent_tokenize(ctxs[k].text)]
           pooled == Min(Len(ctxs), Len(batch_token_ids))
           sent_lens(k) == SentLenList(sents, LastEncoded(k))
       IN  IF starts.err # "none"
           THEN /\ pc' = "error"
                /\ err' = starts.err
                /\ UNCHANGED sentVars
           ELSE IF \E k \in rows : EosPositions(batch_token_ids[k]) = {}
           THEN /\ pc' = "error"
                /\ err' = "IndexError"
                /\ UNCHANGED sentVars
           ELSE IF \E k \in 1..pooled : LastEncoded(k) = 0
           THEN /\ pc' = "error"
                /\ err' = "UnboundLocalError"
                /\ UNCHANGED sentVars
           ELSE /\ sents_list' = sents
                /\ split_token_ctxs' =
                      [k \in DOMAIN ctxs |-> split_tokens(ctxs[k].text, sents[k])]
                /\ batch_scores_context' = scores_context
                /\ batch_token_ids_context' = ids_context
                /\ sent_scores_ctxs' =
                      [k \in 1..pooled |-> PoolSentences(scores_context[k], sent_lens(k))]
                /\ sent_token_ids_ctxs' =
                      [k \in 1..pooled |-> PoolSentences(ids_context[k], sent_lens(k))]
                /\ comp_len_per_ctx' =
                      InitialCompLens(args.adaptive_sent_comp,
                                      [k \in DOMAIN ctxs |-> ctxs[k].ctx_score],
                                      args.pow, args.sent_comp_len)
                /\ total_comp_len' = 0
                /\ ctx_removal_indices' = <<>>
                /\ new_scores_ctxs' = <<>>
                /\ new_token_ids_ctxs' = <<>>
                /\ iter_locals' = <<>>
                /\ pc' = IF ctx_indices_sorted = <<>> THEN "sent_return" ELSE "sent_loop"
                /\ err' = err
    /\ cursor' = 0
    /\ UNCHANGED <<args, encode_fails, ctxs, org_ctxs, batch_scores, batch_token_ids, ctxVars, tokVars>>

\* ctx_idx2ctx_i: the 0-based position of the passage with org_idx - 1 = idx
CtxKeys == {ctxs[k].org_idx - 1 : k \in DOMAIN ctxs}
CtxPosition(idx) == SetMax({k \in DOMAIN ctxs : ctxs[k].org_idx - 1 = idx}) - 1

UncorrectedTotal(loop_total, loop_cur, actural_comp_len) == loop_total

\* lines 405-406: total_comp_len after "total_comp_len -= diff"
CorrectedTotal(loop_total, loop_cur, actural_comp_len) ==
    loop_total - (loop_cur - actural_comp_len)

SkipPassageAtTargetOnly(total, sent_comp_len, comp_len) == total >= sent_comp_len

\* line 352: the passage is kept as it is
SkipPassage(total, sent_comp_len, comp_len) == total >= sent_comp_len \/ comp_len = 0

\* sent_mean_score_ctxs[i]
SentMeans(i) == [j \in DOMAIN sent_scores_ctxs[i + 1] |-> Mean(sent_scores_ctxs[i + 1][j])]

\* the body of one iteration of "for idx in reversed_ctx_indices_sorted" for the
\* passage at position i with the given rank: the values it leaves behind.
\* The embed() call of line 351 returns when its shell is left and changes
\* nothing.
SentIteration(i, rank) ==
    LET ctx == ctxs[i + 1]
        ctx_len == SentRenderedLen(ctx.title, ctx.text)
        num_scored == Len(sent_scores_ctxs[i + 1])
        all_sents == sents_list[i + 1]
        sents == PySlice(all_sents, 0, num_scored)
        rest_sents == PyFrom(all_sents, num_scored)
        comp_len == comp_len_per_ctx[rank + 1]
        argsort_sent == Argsort(SentMeans(i))
        lens == [k \in DOMAIN argsort_sent |->
                    GPTLen(split_token_ctxs[i + 1][argsort_sent[k] + 1]
                           \o sents[argsort_sent[k] + 1])]
        loop == DropLoop(lens, 0, 0, total_comp_len, args.sent_comp_len, comp_len)
        r == ApplyConstraint(args.constraint_1_sent, loop.r, Len(argsort_sent))
        sent_indices_selected == SortAsc(PyFrom(argsort_sent, r))
        sent_comp_text == RebuildText(split_token_ctxs[i + 1], sents,
                                      sent_indices_selected, rest_sents)
        removed == r = Len(argsort_sent)
        actural_comp_len ==
            IF removed THEN ctx_len
            ELSE ctx_len - SentRenderedLen(ctx.title, sent_comp_text)
        none == [branch |-> "empty", r_loop |-> 0, r |-> 0, sent_indices_selected |-> <<>>,
                 comp_len |-> 0, cur_comp_len |-> 0, text |-> ctx.text,
                 total_comp_len |-> total_comp_len, comp_len_per_ctx |-> comp_len_per_ctx]
    IN  IF num_scored = 0
        THEN [removed |-> TRUE, kept |-> FALSE, scores |-> <<>>, ids |-> <<>>,
              text |-> ctx.text, total |-> total_comp_len, lens |-> comp_len_per_ctx,
              locals |-> none]
        ELSE IF SkipPassage(total_comp_len, args.sent_comp_len, comp_len)
        THEN [removed |-> FALSE, kept |-> TRUE,
              scores |-> batch_scores_context[i + 1], ids |-> batch_token_ids_context[i + 1],
              text |-> ctx.text, total |-> total_comp_len, lens |-> comp_len_per_ctx,
              locals |-> [none EXCEPT !.branch = "skip", !.comp_len = comp_len]]
        ELSE [removed |-> removed, kept |-> ~removed,
              scores |-> Concat([k \in DOMAIN sent_indices_selected |->
                            sent_scores_ctxs[i + 1][sent_indices_selected[k] + 1]]),
              ids |-> Concat([k \in DOMAIN sent_indices_selected |->
                            sent_token_ids_ctxs[i + 1][sent_indices_selected[k] + 1]]),
              text |-> IF removed THEN ctx.text ELSE sent_comp_text,
              total |-> CorrectedTotal(loop.total, loop.cur, actural_comp_len),
              lens |-> Reconcile(comp_len_per_ctx, rank, comp_len, actural_comp_len),
              locals |-> [branch |-> "drop", r_loop |-> loop.r, r |-> r,
                          sent_indices_selected |->
                              IF removed THEN <<>> ELSE sent_indices_selected,
                          comp_len |-> comp_len, cur_comp_len |-> actural_comp_len,
                          text |-> ctx.text, total_comp_len |-> total_comp_len,
                          comp_len_per_ctx |-> comp_len_per_ctx]]

\* lines 359 and 386 index sents and split_token_ctxs[i] with every index of
\* argsort_sent, the dropped ones in the loop and the kept ones in the
\* rebuild: with more pooled entries than sentences one of them is out of range
SentIndexOverrun(i, rank) ==
    /\ Len(sent_scores_ctxs[i + 1]) > Len(sents_list[i + 1])
    /\ ~SkipPassage(total_comp_len, args.sent_comp_len, comp_len_per_ctx[rank + 1])

\* f with key k set to v (a dict assignment)
Put(f, k, v) == [x \in (DOMAIN f) \cup {k} |-> IF x = k THEN v ELSE f[x]]

\* one iteration of "for idx in reversed_ctx_indices_sorted"
SentStep ==
    /\ pc = "sent_loop"
    /\ LET idx == Reverse(ctx_indices_sorted)[cursor + 1]
           rank == Len(ctx_indices_sorted) - 1 - cursor
       IN  IF idx \notin CtxKeys
           THEN /\ pc' = "error"
                /\ err' = "KeyError"
                /\ UNCHANGED <<ctxs, comp_len_per_ctx, total_comp_len, ctx_removal_indices,
                               new_scores_ctxs, new_token_ids_ctxs, iter_locals, cursor>>
           ELSE IF SentIndexOverrun(CtxPosition(idx), rank)
           THEN /\ pc' = "error"
                /\ err' = "IndexError"
                /\ UNCHANGED <<ctxs, comp_len_per_ctx, total_comp_len, ctx_removal_indices,
                               new_scores_ctxs, new_token_ids_ctxs, iter_locals, cursor>>
           ELSE LET i == CtxPosition(idx)
                    it == SentIteration(i, rank)
                IN  /\ ctxs' = [ctxs EXCEPT ![i + 1].text = it.text]
                    /\ comp_len_per_ctx' = it.lens
                    /\ total_comp_len' = it.total
                    /\ ctx_removal_indices' =
                          IF it.removed THEN Append(ctx_removal_indices, i)
                          ELSE ctx_removal_indices
                    /\ new_scores_ctxs' =
                          IF it.kept THEN Put(new_scores_ctxs, idx, it.scores)
                          ELSE new_scores_ctxs
                    /\ new_token_ids_ctxs' =
                          IF it.kept THEN Put(new_token_ids_ctxs, idx, it.ids)
                          ELSE new_token_ids_ctxs
                    /\ iter_locals' = Put(iter_locals, idx, it.locals)
                    /\ cursor' = cursor + 1
                    /\ pc' = IF cursor + 1 = Len(ctx_indices_sorted)
                             THEN "sent_return" ELSE "sent_loop"
                    /\ err' = err
    /\ UNCHANGED <<args, encode_fails, org_ctxs, batch_scores, batch_token_ids, ctxVars, tokVars,
                   sents_list, split_token_ctxs, batch_scores_context,
                   batch_token_ids_context, sent_scores_ctxs, sent_token_ids_ctxs>>

ReorderedInLoopOrder(d, kept) ==
    LET keys == SelectSeq(Reverse(ctx_indices_sorted),
                          LAMBDA idx : \E k \in DOMAIN kept : kept[k].org_idx - 1 = idx)
    IN  [k \in DOMAIN kept |-> d[keys[k]]]

\* lines 429-430: the dict d as a list in the order of the passages kept
Reordered(d, kept) == [k \in DOMAIN kept |-> d[kept[k].org_idx - 1]]

\* lines 425-430 and the return
SentReturn ==
    /\ pc = "sent_return"
    /\ LET kept == SelectIdx(ctxs, {k \in DOMAIN ctxs : (k - 1) \notin Range(ctx_removal_indices)})
       IN  IF \E k \in DOMAIN kept : (kept[k].org_idx - 1) \notin DOMAIN new_scores_ctxs
           THEN /\ pc' = "error"
                /\ err' = "KeyError"
                /\ UNCHANGED <<ctxs, new_scores_ctxs, new_token_ids_ctxs>>
           ELSE /\ ctxs' = kept
                /\ new_scores_ctxs' = Reordered(new_scores_ctxs, kept)
                /\ new_token_ids_ctxs' = Reordered(new_token_ids_ctxs, kept)
                /\ pc' = "sent_done"
                /\ err' = err
    /\ UNCHANGED <<args, encode_fails, org_ctxs, batch_scores, batch_token_ids, ctxVars, tokVars, cursor,
                   sents_list, split_token_ctxs, batch_scores_context,
                   batch_token_ids_context, sent_scores_ctxs, sent_token_ids_ctxs,
                   comp_len_per_ctx, total_comp_len, ctx_removal_indices, iter_locals>>

\* Inputs of compress_sentences: up to three passages as compress_contexts
\* returns them with do_sort_ctx off (annotated with ctx_score, in input
\* order), the rows of the scorer for them, and the selection order
MaxSentCompLen == 8    \* largest sent_comp_len

\* the score of every token of sentence j of m
SentTokenScore(order, j, m) ==
    CASE order = "up"   -> j
      [] order = "down" -> m + 1 - j
      [] OTHER          -> 1

ContentScores(text, order) ==
    LET sents == sent_tokenize(text)
    IN  Concat([j \in DOMAIN sents |->
                   [k \in 1..ScoreTokLen(sents[j]) |-> SentTokenScore(order, j, Len(sents))]])

\* text, sentence-score order, tokens the scorer truncated, passage score
SentPool ==
    { [text |-> <<"a", ".">>, order |-> "up", cut |-> 0, v |-> 1],
      [text |-> <<"a", ".">>, order |-> "flat", cut |-> 2, v |-> 2],
      [text |-> <<"a", ".", " ", "a", ".">>, order |-> "up", cut |-> 0, v |-> 2],
      [text |-> <<"a", ".", " ", "a", ".">>, order |-> "down", cut |-> 0, v |-> 1],
      [text |-> <<"a", ".", " ", "a", ".">>, order |-> "up", cut |-> 2, v |-> 1],
      [text |-> <<"a", ".", " ", "a", " ", "a", ".">>, order |-> "up", cut |-> 0, v |-> 2],
      [text |-> <<"a", ".", " ", "a", ".", " ">>, order |-> "flat", cut |-> 0, v |-> 1],
      [text |-> <<"a", ".", "\n", "a", ".">>, order |-> "down", cut |-> 0, v |-> 2],
      [text |-> <<"a", ".", " ", "a", ".", " ", "a", ".">>, order |-> "up", cut |-> 0, v |-> 1],
      [text |-> <<"a", ".", " ", "a", ".", " ", "a", ".">>, order |-> "down", cut |-> 1, v |-> 2],
      [text |-> <<"a", ".", " ", "a", ".", " ", "a", ".">>, order |-> "flat", cut |-> 0, v |-> 2],
      [text |-> <<"a", ".", "\n", "a", ".", "\n", "a", ".">>, order |-> "flat", cut |-> 0, v |-> 1],
      [text |-> <<"a", " ", "a", ".", " ">>, order |-> "flat", cut |-> 0, v |-> 2] }

SentArgs ==
    {[DefaultArgs EXCEPT !.sent_comp_len = scl, !.adaptive_sent_comp = ad, !.pow = pw,
                         !.constraint_1_sent = c1] :
        scl \in 0..MaxSentCompLen, ad \in BOOLEAN, pw \in {1, 2}, c1 \in BOOLEAN}

\* the passages of the calls with three passages
SentPoolOfThree ==
    { [text |-> <<"a", ".">>, order |-> "up", cut |-> 0, v |-> 1],
      [text |-> <<"a", ".", " ", "a", ".">>, order |-> "up", cut |-> 0, v |-> 2],
      [text |-> <<"a", ".", " ", "a", ".", " ", "a", ".">>, order |-> "down", cut |-> 1, v |-> 2] }

SentCtxCounts == {0, 1, 2, 3}

\* the configurations of the calls in which the tokenizer fails on a passage
EncodeFailureArgs(a) == ~a.adaptive_sent_comp /\ ~a.constraint_1_sent
SentTitles == {"t", None}

SentInputs(failing) ==
    /\ pc = "sent_prepare"
    /\ err = "none"
    /\ args \in {a \in SentArgs : /\ a.pow = 1 \/ a.adaptive_sent_comp
                                  /\ failing => EncodeFailureArgs(a)}
    /\ \E n \in SentCtxCounts :
       \E ps \in [1..n -> IF n > 2 THEN SentPoolOfThree ELSE SentPool] :
       \E titles \in [1..n -> SentTitles] :
        /\ ctxs = [i \in 1..n |->
              [Passage(i, titles[i], ps[i].text) EXCEPT !.ctx_score = ps[i].v]]
        /\ batch_scores = [i \in 1..n |->
              ScoreRow(titles[i],
                       PySlice(ContentScores(ps[i].text, ps[i].order), 0,
                               ScoreTokLen(ps[i].text) - ps[i].cut),
                       1)]
        /\ batch_token_ids = [i \in 1..n |->
              IdRow(titles[i], PySlice(ScoreTokIds(ps[i].text), 0,
                                       ScoreTokLen(ps[i].text) - ps[i].cut))]
        /\ ctx_indices_sorted = ArgsortDesc([i \in 1..n |-> ps[i].v])
        /\ ctx_scores = [i \in 1..n |-> ps[i].v]
        /\ ctx_indices = ctx_indices_sorted
        /\ encode_fails \in IF failing THEN {{i} : i \in 0..(n - 1)} ELSE {{}}
    /\ org_ctxs = ctxs
    /\ len_total = 0
    /\ cursor = 0
    /\ TokIdle
    /\ SentIdle

\* calls in which the tokenizer encodes the sentences of every passage
InitSent == SentInputs(FALSE)

NextSent ==
    \/ SentPrepare
    \/ SentStep
    \/ SentReturn

SpecSent == InitSent /\ [][NextSent]_vars

\* calls in which batch_encode_plus raises for the sentences of one passage
InitSentFail == SentInputs(TRUE)

NextSentFail ==
    \/ SentPrepare
    \/ SentStep
    \/ SentReturn

SpecSentFail == InitSentFail /\ [][NextSentFail]_vars

----------------------------------------------------------------------------
(* Properties of compress_sentences *)

SentLooping == pc \in {"sent_loop", "sent_return"}
SentDone == pc = "sent_done"

\* the passages whose iteration went through the sentence-dropping loop
DropIdx == {idx \in DOMAIN iter_locals : iter_locals[idx].branch = "drop"}

NumScored(i) == Len(sent_scores_ctxs[i + 1])

Contains(hay, needle) == Find(hay, needle) >= 0

\* the pooled slices of the selected sentences of the passage at position i
SelectedSlices(pooled, i, selected) ==
    Concat([k \in DOMAIN selected |-> pooled[i + 1][selected[k] + 1]])

\* the passage at position i keeps a scored sentence in its text and arrays
KeepsScoredSentence(i, idx, text, ids, scores) ==
    LET selected == iter_locals[idx].sent_indices_selected
    IN  /\ selected # <<>>
        /\ \A k \in DOMAIN selected :
              /\ selected[k] < NumScored(i)
              /\ Contains(text, sents_list[i + 1][selected[k] + 1])
        /\ ids = SelectedSlices(sent_token_ids_ctxs, i, selected)
        /\ scores = SelectedSlices(sent_scores_ctxs, i, selected)
        /\ ids # <<>>
        /\ scores # <<>>

\* (under SpecSent the passage with org_idx o entered the call at position o - 1)
\* C5: with constraint_1_sent on, a passage that goes through the
\* sentence-dropping loop is not marked for removal and keeps at least one of
\* its scored sentences in its text and in its score and token-id arrays, in
\* the loop and in the returned output; every passage of the output went
\* through the skip branch or kept a sentence.
C5_KeepsOneSentence ==
    args.constraint_1_sent =>
        /\ SentLooping =>
              \A idx \in DropIdx :
                  LET i == CtxPosition(idx)
                  IN  /\ i \notin Range(ctx_removal_indices)
                      /\ iter_locals[idx].r < NumScored(i)
                      /\ KeepsScoredSentence(i, idx, ctxs[i + 1].text,
                                             new_token_ids_ctxs[idx], new_scores_ctxs[idx])
        /\ SentDone =>
              /\ \A idx \in DropIdx : \E k \in DOMAIN ctxs : ctxs[k].org_idx - 1 = idx
              /\ \A k \in DOMAIN ctxs :
                    LET idx == ctxs[k].org_idx - 1
                    IN  \/ iter_locals[idx].branch = "skip"
                        \/ /\ iter_locals[idx].branch = "drop"
                           /\ KeepsScoredSentence(idx, idx, ctxs[k].text,
                                                  new_token_ids_ctxs[k], new_scores_ctxs[k])

\* the constraint acted: the loop had dropped every sentence of a passage
\* that is in the output with one sentence
C5_Witness ==
    /\ SentDone
    /\ args.constraint_1_sent
    /\ \E k \in DOMAIN ctxs :
          LET loc == iter_locals[ctxs[k].org_idx - 1]
          IN  /\ loc.branch = "drop"
              /\ loc.r_loop = Len(sents_list[ctxs[k].org_idx])
              /\ loc.r_loop >= 2
              /\ Len(loc.sent_indices_selected) = 1

\* a single passage and sent_comp_len equal to its full rendered length
FullLength == SentRenderedLen(org_ctxs[1].title, org_ctxs[1].text)
SinglePassageFullBudget == Len(org_ctxs) = 1 /\ args.sent_comp_len = FullLength

\* the separately measured lengths of the scored sentences, each with its
\* separator (cur_sent_len of the loop), summed
PieceLenSum(i) ==
    SumSeq([j \in 1..NumScored(i) |->
               GPTLen(split_token_ctxs[i + 1][j] \o sents_list[i + 1][j])])

RemovedByDropping ==
    /\ ctxs = <<>>
    /\ new_scores_ctxs = <<>>
    /\ new_token_ids_ctxs = <<>>
    /\ ctx_removal_indices = <<0>>
    /\ iter_locals[0].branch = "drop"
    /\ iter_locals[0].r = NumScored(0)

\* C8 as stated: for a single passage and sent_comp_len equal to its full
\* length, comp_len_per_ctx is [full length], every sentence is dropped, the
\* removal path is taken and the output does not contain the passage.
C8_FullBudgetRemoves ==
    SinglePassageFullBudget =>
        /\ (SentLooping \/ SentDone) => comp_len_per_ctx = <<FullLength>>
        /\ SentDone => RemovedByDropping

\* C8 amended: for a single passage with at least one scored sentence and
\* sent_comp_len equal to its full length, comp_len_per_ctx is [full length];
\* with constraint_1_sent off and the separately measured sentence lengths
\* summing to no more than the full length, every scored sentence is dropped,
\* the removal path is taken and the output does not contain the passage;
\* with constraint_1_sent on the passage stays in the output with a sentence.
C8_FullBudgetRemovesUnlessConstrained ==
    SinglePassageFullBudget =>
        /\ (SentLooping \/ SentDone) => comp_len_per_ctx = <<FullLength>>
        /\ (SentDone /\ NumScored(0) >= 1) =>
              /\ (~args.constraint_1_sent /\ PieceLenSum(0) <= FullLength)
                    => RemovedByDropping
              /\ args.constraint_1_sent =>
                    /\ Len(ctxs) = 1
                    /\ ctx_removal_indices = <<>>
                    /\ iter_locals[0].branch = "drop"
                    /\ iter_locals[0].sent_indices_selected # <<>>

C8_Witness ==
    /\ SinglePassageFullBudget
    /\ SentDone
    /\ ~args.constraint_1_sent
    /\ NumScored(0) >= 2
    /\ RemovedByDropping

\* the content range of row k: from the content start index up to the last
\* end-of-sequence position
ContentRange(k) ==
    PySlice(batch_token_ids[k],
            get_ctx_start_indices([j \in DOMAIN org_ctxs |-> org_ctxs[j].title]).val[k],
            SetMax(EosPositions(batch_token_ids[k])))

\* C9: for a passage whose number of sentences equals the number of pooled
\* entries, the pooled token-id slices concatenate, in sentence order, to the
\* content token-id array of the passage, which is the range of its row from
\* the content start index up to the end-of-sequence position.
C9_PoolingCoverage ==
    (SentLooping \/ SentDone) =>
        \A k \in DOMAIN sent_token_ids_ctxs :
            Len(sent_token_ids_ctxs[k]) = Len(sents_list[k]) =>
                /\ Concat(sent_token_ids_ctxs[k]) = batch_token_ids_context[k]
                /\ batch_token_ids_context[k] = ContentRange(k)

\* a passage of three sentences whose row was truncated inside the last one
C9_Witness ==
    /\ SentLooping
    /\ \E k \in DOMAIN sent_token_ids_ctxs :
          /\ Len(sents_list[k]) = 3
          /\ Len(sent_token_ids_ctxs[k]) = 3
          /\ Len(batch_token_ids_context[k]) < ScoreTokLen(org_ctxs[k].text)

\* the characters of the passage text from the start of the separator of
\* sentence j (0-based) to the end of that sentence, as 1-based positions
SpanOf(i, j) ==
    LET before == SumSeq([k \in 1..j |->
                             Len(split_token_ctxs[i + 1][k]) + Len(sents_list[i + 1][k])])
    IN  (before + 1)..(before + Len(split_token_ctxs[i + 1][j + 1])
                              + Len(sents_list[i + 1][j + 1]))

\* the scored sentences of the passage at position i that its iteration dropped
DroppedSentences(i, idx) ==
    (0..(NumScored(i) - 1)) \ Range(iter_locals[idx].sent_indices_selected)

\* text without the spans of the dropped sentences
WithoutDropped(text, i, idx) ==
    SelectIdx(text, (1..Len(text)) \ UNION {SpanOf(i, j) : j \in DroppedSentences(i, idx)})

\* the passages whose text the loop rebuilt
RebuiltIdx == {idx \in DropIdx : CtxPosition(idx) \notin Range(ctx_removal_indices)}

\* C10 as stated: the rebuilt text is the original text with exactly the
\* spans (separator and sentence) of the dropped sentences removed; with no
\* sentence dropped it is the original text.
C10_RebuiltIsOriginalMinusDropped ==
    SentLooping =>
        \A idx \in RebuiltIdx :
            LET i == CtxPosition(idx)
            IN  ctxs[i + 1].text = WithoutDropped(org_ctxs[i + 1].text, i, idx)

\* C10 amended: the rebuilt text is the original text without its trailing
\* whitespace, with exactly the spans (separator and sentence) of the dropped
\* sentences removed; with no sentence dropped it is the original text without
\* its trailing whitespace.
C10_RebuiltIsStrippedMinusDropped ==
    SentLooping =>
        \A idx \in RebuiltIdx :
            LET i == CtxPosition(idx)
                org_text == org_ctxs[i + 1].text
            IN  ctxs[i + 1].text =
                    WithoutDropped(SubSeq(org_text, 1, RStripLen(org_text)), i, idx)

\* a text with trailing whitespace was rebuilt with no sentence dropped, and a
\* text with newline separators was rebuilt with one of three sentences dropped
C10_Witness ==
    /\ SentLooping
    /\ Len(ctxs) = 2
    /\ \E idx \in RebuiltIdx :
          /\ DroppedSentences(CtxPosition(idx), idx) = {}
          /\ ctxs[CtxPosition(idx) + 1].text # org_ctxs[CtxPosition(idx) + 1].text
    /\ \E idx \in RebuiltIdx :
          /\ Len(iter_locals[idx].sent_indices_selected) = 2
          /\ NumScored(CtxPosition(idx)) = 3
          /\ "\n" \in Range(ctxs[CtxPosition(idx) + 1].text)

\* the rest sentences of the passage that entered at position i (0-based):
\* the sentences after the scored ones, each with its separator
RestText(i) ==
    Concat([j \in 1..(Len(sents_list[i + 1]) - NumScored(i)) |->
               split_token_ctxs[i + 1][NumScored(i) + j]
                   \o sents_list[i + 1][NumScored(i) + j]])

HasRest(i) == NumScored(i) < Len(sents_list[i + 1])

\* C14: every passage with fewer pooled entries than sentences is in the output
\* of compress_sentences with its rest sentences unchanged at the end of its
\* text, whatever happened to its scored sentences.
C14_RestSentencesKept ==
    SentDone =>
        \A i \in 0..(Len(org_ctxs) - 1) :
            HasRest(i) =>
                \E k \in DOMAIN ctxs :
                    /\ ctxs[k].org_idx = i + 1
                    /\ Len(ctxs[k].text) >= Len(RestText(i))
                    /\ PyFrom(ctxs[k].text, Len(ctxs[k].text) - Len(RestText(i))) = RestText(i)

\* the passage of the last finished iteration and its rank
LastIdx == Reverse(ctx_indices_sorted)[cursor]
LastRank == Len(ctx_indices_sorted) - cursor

\* the last finished iteration went through the sentence-dropping loop
JustDropped ==
    /\ SentLooping
    /\ cursor >= 1
    /\ LastIdx \in DOMAIN iter_locals
    /\ iter_locals[LastIdx].branch = "drop"

\* realized savings minus allotted budget of the last finished iteration
LastExcess == iter_locals[LastIdx].cur_comp_len - iter_locals[LastIdx].comp_len

\* the budget list when the last finished iteration began
BudgetsBefore == iter_locals[LastIdx].comp_len_per_ctx

\* what is left of an excess e after the budgets of the ranks below j
ExcessLeft(e, j) == Max(0, e - SumSeq(PySlice(BudgetsBefore, 0, j)))

\* C15 as stated: after a passage went through the sentence-dropping loop,
\* savings above its budget lower no budget of the list (they are added to
\* higher-ranked passages), and a shortfall raises no budget (it is taken
\* from another passage).
C15_ExcessRollsForward ==
    JustDropped =>
        /\ LastExcess > 0 =>
              \A j \in DOMAIN BudgetsBefore : comp_len_per_ctx[j] >= BudgetsBefore[j]
        /\ LastExcess < 0 =>
              \A j \in DOMAIN BudgetsBefore : comp_len_per_ctx[j] <= BudgetsBefore[j]

\* C15 amended: after a passage of rank r went through the sentence-dropping
\* loop, savings above its budget are taken off the budgets of the ranks
\* 0..r-1 from rank 0 on, each budget going down to zero at most, until the
\* excess is used up; savings not above the budget leave the difference added
\* to the budget of rank r-1, the next passage of the loop, and change nothing
\* when r is 0; every other budget is unchanged.
C15_ExcessReducesTopRanks ==
    JustDropped =>
        /\ Len(comp_len_per_ctx) = Len(BudgetsBefore)
        /\ \A j \in 0..(Len(BudgetsBefore) - 1) :
              comp_len_per_ctx[j + 1] =
                  IF LastExcess > 0 /\ j < LastRank
                  THEN Max(0, BudgetsBefore[j + 1] - ExcessLeft(LastExcess, j))
                  ELSE IF LastExcess <= 0 /\ j = LastRank - 1
                  THEN BudgetsBefore[j + 1] - LastExcess
                  ELSE BudgetsBefore[j + 1]

\* an excess was larger than the budget of rank 0 and also lowered that of rank 1
C15_Witness ==
    /\ JustDropped
    /\ LastExcess > 0
    /\ LastRank >= 2
    /\ BudgetsBefore[1] > 0
    /\ comp_len_per_ctx[1] = 0
    /\ comp_len_per_ctx[2] < BudgetsBefore[2]

\* the positions, in the input, of the passages of the output
SurvivorPositions == [k \in DOMAIN ctxs |-> ctxs[k].org_idx - 1]

\* all pooled slices of the passage at position i, in sentence order
AllSlices(pooled, i) == Concat(pooled[i + 1])

\* C16: no dict lookup of compress_sentences fails; its output has one
\* score array and one token-id array per passage, in the order of the
\* passages; the passages are those of the input not marked for removal, in
\* input order; the arrays of a passage are the pooled slices of its selected
\* sentences when it went through the sentence-dropping loop and its full
\* content arrays, the slices of all its scored sentences, when it was skipped.
C16_ArraysPerSurvivor ==
    /\ err # "KeyError"
    /\ SentDone =>
          /\ Len(new_scores_ctxs) = Len(ctxs)
          /\ Len(new_token_ids_ctxs) = Len(ctxs)
          /\ SurvivorPositions =
                SelectSeq([i \in 1..Len(org_ctxs) |-> i - 1],
                          LAMBDA i : i \notin Range(ctx_removal_indices))
          /\ \A k \in DOMAIN ctxs :
                LET i == SurvivorPositions[k]
                    selected == iter_locals[i].sent_indices_selected
                IN  IF iter_locals[i].branch = "skip"
                    THEN /\ new_scores_ctxs[k] = batch_scores_context[i + 1]
                         /\ new_token_ids_ctxs[k] = batch_token_ids_context[i + 1]
                         /\ new_scores_ctxs[k] = AllSlices(sent_scores_ctxs, i)
                         /\ new_token_ids_ctxs[k] = AllSlices(sent_token_ids_ctxs, i)
                         /\ ctxs[k].text = org_ctxs[i + 1].text
                    ELSE /\ iter_locals[i].branch = "drop"
                         /\ selected # <<>>
                         /\ new_scores_ctxs[k] = SelectedSlices(sent_scores_ctxs, i, selected)
                         /\ new_token_ids_ctxs[k] =
                               SelectedSlices(sent_token_ids_ctxs, i, selected)

\* of three passages not in rank order one was removed, one was skipped and
\* one lost a sentence
C16_Witness ==
    /\ SentDone
    /\ Len(org_ctxs) = 3
    /\ Len(ctxs) = 2
    /\ ctx_indices_sorted # <<0, 1, 2>>
    /\ \E k, l \in DOMAIN ctxs :
          /\ iter_locals[SurvivorPositions[k]].branch = "skip"
          /\ iter_locals[SurvivorPositions[l]].branch = "drop"
          /\ Len(iter_locals[SurvivorPositions[l]].sent_indices_selected)
                < NumScored(SurvivorPositions[l])
          /\ new_scores_ctxs[k] # new_scores_ctxs[l]

\* the titles of the call and whether some are None and some are not
CallTitles == [k \in DOMAIN org_ctxs |-> org_ctxs[k].title]
MixedTitles == \E j, k \in DOMAIN CallTitles : CallTitles[j] = None /\ CallTitles[k] # None

\* C17: get_ctx_start_indices returns one offset per title when the titles
\* are all present or all None, and for every mixed list it returns no
\* offsets and raises; compress_sentences, which calls it first, then stops
\* with that error before computing anything, and stops with it for no other
\* list.
C17_MixedTitlesRejected ==
    /\ MixedTitles =>
          /\ get_ctx_start_indices(CallTitles) = Raise("AssertionError")
          /\ pc \in {"sent_prepare", "error"}
          /\ pc = "error" => err = "AssertionError"
          /\ sents_list = <<>> /\ batch_scores_context = <<>> /\ comp_len_per_ctx = <<>>
    /\ (~MixedTitles /\ CallTitles # <<>>) =>
          /\ get_ctx_start_indices(CallTitles).err = "none"
          /\ Len(get_ctx_start_indices(CallTitles).val) = Len(CallTitles)
          /\ err # "AssertionError"

\* a list whose first two titles are present and whose third is None was rejected
C17_Witness ==
    /\ pc = "error"
    /\ err = "AssertionError"
    /\ Len(CallTitles) = 3
    /\ CallTitles[1] # None
    /\ CallTitles[2] # None
    /\ CallTitles[3] = None

\* the rank of a passage and its budget when its iteration began
RankOf(idx) == SetMax({k \in DOMAIN ctx_indices_sorted : ctx_indices_sorted[k] = idx}) - 1
BudgetAtStart(idx) == iter_locals[idx].comp_len_per_ctx[RankOf(idx) + 1]

\* the passage was reached with the target met or with no budget
ReachedAtTarget(idx) ==
    \/ iter_locals[idx].total_comp_len >= args.sent_comp_len
    \/ BudgetAtStart(idx) = 0

\* the passage of an earlier iteration is as it was before the call, is not
\* marked for removal and has its full content arrays; its iteration, when it
\* was the last one, left the running total and the budget list as they were
KeptUnmodified(idx) ==
    /\ SentLooping =>
          LET i == CtxPosition(idx)
          IN  /\ ctxs[i + 1].text = org_ctxs[i + 1].text
              /\ i \notin Range(ctx_removal_indices)
              /\ idx \in DOMAIN new_scores_ctxs
              /\ new_scores_ctxs[idx] = batch_scores_context[i + 1]
              /\ new_token_ids_ctxs[idx] = batch_token_ids_context[i + 1]
              /\ idx = LastIdx =>
                    /\ total_comp_len = iter_locals[idx].total_comp_len
                    /\ comp_len_per_ctx = iter_locals[idx].comp_len_per_ctx
    /\ SentDone =>
          \E k \in DOMAIN ctxs :
              /\ ctxs[k].org_idx - 1 = idx
              /\ ctxs[k].text = org_ctxs[idx + 1].text
              /\ new_scores_ctxs[k] = batch_scores_context[idx + 1]
              /\ new_token_ids_ctxs[k] = batch_token_ids_context[idx + 1]

\* C19 as stated: every passage reached while the running total meets
\* sent_comp_len or while its budget is zero is kept unmodified.
C19_SkipKeepsEveryPassage ==
    (SentLooping \/ SentDone) =>
        \A idx \in DOMAIN iter_locals : ReachedAtTarget(idx) => KeptUnmodified(idx)

\* C19 amended: every passage with at least one scored sentence that is
\* reached while the running total meets sent_comp_len or while its budget is
\* zero is kept unmodified, and such a passage without a scored sentence is
\* marked for removal and is not in the output.
C19_SkipKeepsScoredPassage ==
    (SentLooping \/ SentDone) =>
        \A idx \in DOMAIN iter_locals :
            ReachedAtTarget(idx) =>
                IF NumScored(idx) > 0
                THEN iter_locals[idx].branch = "skip" /\ KeptUnmodified(idx)
                ELSE /\ iter_locals[idx].branch = "empty"
                     /\ SentLooping => CtxPosition(idx) \in Range(ctx_removal_indices)
                     /\ SentDone => \A k \in DOMAIN ctxs : ctxs[k].org_idx - 1 # idx

\* a passage with a zero budget was reached below the target and is in the
\* output as it was, next to a passage that lost a sentence
C19_Witness ==
    /\ SentDone
    /\ \E idx, other \in DOMAIN iter_locals :
          /\ BudgetAtStart(idx) = 0
          /\ iter_locals[idx].total_comp_len < args.sent_comp_len
          /\ iter_locals[idx].branch = "skip"
          /\ iter_locals[other].branch = "drop"
          /\ \E k, l \in DOMAIN ctxs :
                /\ ctxs[k].org_idx - 1 = idx
                /\ ctxs[l].org_idx - 1 = other
                /\ ctxs[l].text # org_ctxs[other + 1].text

\* cur_sent_len of the k-th sentence of the passage at position i in the
\* order of the loop (ascending mean score)
LoopSentLen(i, k) ==
    LET sent_index == Argsort(SentMeans(i))[k]
    IN  GPTLen(split_token_ctxs[i + 1][sent_index + 1] \o sents_list[i + 1][sent_index + 1])

\* cur_comp_len and total_comp_len of the loop after its first k sentences
LoopCur(i, k) == SumSeq([j \in 1..k |-> LoopSentLen(i, j)])
LoopTotal(idx, k) == iter_locals[idx].total_comp_len + LoopCur(CtxPosition(idx), k)

Distance(total) == Abs(total - args.sent_comp_len)

\* the loop reached its (k+1)-th sentence
LoopReached(idx, k) ==
    /\ k < NumScored(CtxPosition(idx))
    /\ k >= 1 => /\ LoopTotal(idx, k) < args.sent_comp_len
                 /\ LoopCur(CtxPosition(idx), k) < iter_locals[idx].comp_len

\* the restore rule of the loop for the passage idx: the sentence that takes
\* the running total to sent_comp_len or beyond is kept exactly when the
\* total without it is strictly closer to sent_comp_len
RestoreRule(idx) ==
    LET k == iter_locals[idx].r_loop
    IN  /\ (LoopReached(idx, k) /\ LoopTotal(idx, k + 1) >= args.sent_comp_len) =>
              Distance(LoopTotal(idx, k)) < Distance(LoopTotal(idx, k + 1))
        /\ (k >= 1 /\ LoopTotal(idx, k) >= args.sent_comp_len) =>
              /\ LoopReached(idx, k - 1)
              /\ ~(Distance(LoopTotal(idx, k - 1)) < Distance(LoopTotal(idx, k)))

\* what the iteration of the passage at position i saves when it drops r
\* sentences: actural_comp_len of lines 378-398
SavedByDropping(i, r) ==
    LET ctx == org_ctxs[i + 1]
        sents == PySlice(sents_list[i + 1], 0, NumScored(i))
        rest_sents == PyFrom(sents_list[i + 1], NumScored(i))
        selected == SortAsc(PyFrom(Argsort(SentMeans(i)), r))
    IN  IF r = NumScored(i) THEN SentRenderedLen(ctx.title, ctx.text)
        ELSE SentRenderedLen(ctx.title, ctx.text)
                 - SentRenderedLen(ctx.title,
                                   RebuildText(split_token_ctxs[i + 1], sents, selected,
                                               rest_sents))

\* C20 as stated: the loop follows the restore rule, and the number of
\* sentences dropped from a passage never leaves the running total of the
\* call farther from sent_comp_len than one sentence fewer would.
C20_NeverFartherThanOneShort ==
    JustDropped =>
        /\ RestoreRule(LastIdx)
        /\ iter_locals[LastIdx].r >= 1 =>
              Distance(total_comp_len) <=
                  Distance(iter_locals[LastIdx].total_comp_len
                           + SavedByDropping(CtxPosition(LastIdx), iter_locals[LastIdx].r - 1))

\* C20 amended: the loop follows the restore rule, and by the lengths the
\* loop adds up, each sentence measured on its own with its separator, the
\* number of sentences the loop drops, also after constraint_1_sent took one
\* off, leaves the total no farther from sent_comp_len than one sentence
\* fewer would; the running total after the iteration is the total before
\* it plus the saving measured on the rebuilt or removed passage.
C20_RestoreWhenCloser ==
    SentLooping =>
        \A idx \in DropIdx :
            /\ RestoreRule(idx)
            /\ \A k \in {iter_locals[idx].r_loop, iter_locals[idx].r} :
                  k >= 1 => Distance(LoopTotal(idx, k)) <= Distance(LoopTotal(idx, k - 1))
            /\ iter_locals[idx].cur_comp_len =
                  SavedByDropping(CtxPosition(idx), iter_locals[idx].r)
            /\ idx = LastIdx =>
                  total_comp_len =
                      iter_locals[idx].total_comp_len + iter_locals[idx].cur_comp_len

\* the second sentence of a passage took the total past the target by more
\* than the first had left it short, and was kept
C20_Witness ==
    /\ SentLooping
    /\ \E idx \in DropIdx :
          /\ iter_locals[idx].r_loop = 1
          /\ LoopReached(idx, 1)
          /\ LoopTotal(idx, 2) > args.sent_comp_len
          /\ Distance(LoopTotal(idx, 1)) < Distance(LoopTotal(idx, 2))

\* the scored sentences of the passage idx in ascending order of mean score
\* are split in a dropped part below and a retained part above
DroppedAreLowest(i, idx) ==
    LET means == SentMeans(i)
        selected == Range(iter_locals[idx].sent_indices_selected)
        dropped == DroppedSentences(i, idx)
    IN  /\ Cardinality(dropped) = iter_locals[idx].r
        /\ selected \subseteq 0..(NumScored(i) - 1)
        /\ \A d \in dropped : \A k \in selected : ~FracLess(means[k + 1], means[d + 1])

StrictlyAscending(xs) == \A k \in 1..(Len(xs) - 1) : xs[k] < xs[k + 1]

BudgetsInitial == pc \in {"sent_loop", "sent_return"} /\ cursor = 0

NumCtxs == Len(org_ctxs)
AdaptiveMode == args.adaptive_sent_comp /\ NumCtxs > 1

\* the budget of the passage at position i (its rank is its place in
\* ctx_indices_sorted)
InitialBudgetOf(i) == comp_len_per_ctx[RankOf(org_ctxs[i + 1].org_idx - 1) + 1]

\* sum over the passages of 1 / ctx_score^pow, times the product of all
\* ctx_score^pow, and the same for the term of passage i alone
InverseSum ==
    SumSeq([k \in 1..NumCtxs |->
               ProdSeq([j \in 1..NumCtxs |->
                           IF j = k THEN 1 ELSE Pow(org_ctxs[j].ctx_score, args.pow)])])
InverseOf(i) ==
    ProdSeq([j \in 1..NumCtxs |->
                IF j = i + 1 THEN 1 ELSE Pow(org_ctxs[j].ctx_score, args.pow)])

\* C23: before the loop the budgets are floor(sent_comp_len / num_passages)
\* each in uniform mode and in adaptive mode with one passage; in adaptive
\* mode with two or more passages a passage's budget is its share of
\* sent_comp_len inversely proportional to ctx_score^pow, truncated, so a
\* lower-scored passage never has a smaller budget than a higher-scored one,
\* and the budgets sum to sent_comp_len at most.
C23_InitialBudgets ==
    BudgetsInitial =>
        /\ Len(comp_len_per_ctx) = NumCtxs
        /\ ~AdaptiveMode =>
              \A k \in DOMAIN comp_len_per_ctx :
                  /\ comp_len_per_ctx[k] * NumCtxs <= args.sent_comp_len
                  /\ (comp_len_per_ctx[k] + 1) * NumCtxs > args.sent_comp_len
        /\ AdaptiveMode =>
              /\ \A i, j \in 0..(NumCtxs - 1) :
                    org_ctxs[i + 1].ctx_score < org_ctxs[j + 1].ctx_score =>
                        InitialBudgetOf(i) >= InitialBudgetOf(j)
              /\ \A i \in 0..(NumCtxs - 1) :
                    /\ InitialBudgetOf(i) * InverseSum <= InverseOf(i) * args.sent_comp_len
                    /\ (InitialBudgetOf(i) + 1) * InverseSum > InverseOf(i) * args.sent_comp_len
              /\ SumSeq(comp_len_per_ctx) <= args.sent_comp_len

\* adaptive budgets of three passages: the first passage has the lowest
\* score and a larger budget than the others, and truncation left the sum
\* below sent_comp_len
C23_Witness ==
    /\ BudgetsInitial
    /\ AdaptiveMode
    /\ NumCtxs = 3
    /\ org_ctxs[1].ctx_score < org_ctxs[2].ctx_score
    /\ InitialBudgetOf(0) > InitialBudgetOf(1)
    /\ InitialBudgetOf(1) > 0
    /\ SumSeq(comp_len_per_ctx) < args.sent_comp_len

\* the pooled id slices of the passage at position i are those cut at the
\* lengths of its own sentences
PooledWithOwnLengths(i) ==
    sent_token_ids_ctxs[i + 1] =
        PoolSentences(batch_token_ids_context[i + 1], SentLenList(sents_list, i + 1))

\* C24: a call in which batch_encode_plus raises for the sentences of a
\* passage does not end in an error, and the passage is pooled with the
\* lengths of its own sentences or not pooled at all, never with the lengths
\* of another passage.
C24_EncodeErrorSurfaced ==
    encode_fails # {} =>
        /\ pc # "error"
        /\ (SentLooping \/ SentDone) =>
              \A i \in encode_fails :
                  PooledWithOwnLengths(i) \/ sent_token_ids_ctxs[i + 1] = <<>>

\* the passage of the k-th iteration of the loop
IterIdx(k) == Reverse(ctx_indices_sorted)[k]

\* what the k-th iteration saved: the rendered length it took off a passage
\* that went through the sentence-dropping loop, nothing otherwise
RealizedSaving(k) ==
    IF iter_locals[IterIdx(k)].branch = "drop"
    THEN SavedByDropping(CtxPosition(IterIdx(k)), iter_locals[IterIdx(k)].r)
    ELSE 0

\* C25: after every iteration of the loop total_comp_len is the sum, over
\* the passages processed so far, of the rendered length taken off by
\* dropping sentences (the whole rendered length for a passage removed with
\* all its sentences dropped); skipped passages and passages without a scored
\* sentence add nothing.
C25_TotalIsRealizedSavings ==
    SentLooping =>
        /\ total_comp_len = SumSeq([k \in 1..cursor |-> RealizedSaving(k)])
        /\ \A k \in 1..cursor :
              iter_locals[IterIdx(k)].branch = "drop" =>
                  RealizedSaving(k) = iter_locals[IterIdx(k)].cur_comp_len

\* three passages processed: one removed with all its sentences dropped, one
\* that lost a sentence and saved less than the loop had added up, one skipped
C25_Witness ==
    /\ SentLooping
    /\ cursor = 3
    /\ \E a, b, c \in 1..3 :
          /\ iter_locals[IterIdx(a)].branch = "drop"
          /\ CtxPosition(IterIdx(a)) \in Range(ctx_removal_indices)
          /\ iter_locals[IterIdx(b)].branch = "drop"
          /\ IterIdx(b) \in RebuiltIdx
          /\ RealizedSaving(b) > 0
          /\ RealizedSaving(b)
                # LoopCur(CtxPosition(IterIdx(b)), iter_locals[IterIdx(b)].r_loop)
          /\ iter_locals[IterIdx(c)].branch = "skip"

\* an iteration of the loop has just ended
JustProcessed == SentLooping /\ cursor >= 1 /\ LastIdx \in DOMAIN iter_locals

\* the budget taken off the list by the last iteration
BudgetRemoved == SumSeq(BudgetsBefore) - SumSeq(comp_len_per_ctx)

\* C26: in every state of the loop every budget is a non-negative integer;
\* an iteration changes only budgets of ranks below the rank of its passage,
\* those of the passages not yet processed; an excess lowers budgets only,
\* by no more than the excess in total.
C26_BudgetsStayNonNegative ==
    /\ SentLooping => \A k \in DOMAIN comp_len_per_ctx : comp_len_per_ctx[k] \in Nat
    /\ JustProcessed =>
          /\ Len(comp_len_per_ctx) = Len(BudgetsBefore)
          /\ \A j \in LastRank..(Len(BudgetsBefore) - 1) :
                comp_len_per_ctx[j + 1] = BudgetsBefore[j + 1]
          /\ iter_locals[LastIdx].branch # "drop" => comp_len_per_ctx = BudgetsBefore
    /\ (JustDropped /\ LastExcess > 0) =>
          /\ \A k \in DOMAIN BudgetsBefore : comp_len_per_ctx[k] <= BudgetsBefore[k]
          /\ BudgetRemoved <= LastExcess

\* an excess larger than the budgets of the ranks below took them all to
\* zero and left the budget of the passage itself as it was
C26_Witness ==
    /\ JustDropped
    /\ LastRank >= 1
    /\ LastExcess > BudgetRemoved
    /\ BudgetRemoved > 0
    /\ \A j \in 0..(LastRank - 1) : comp_len_per_ctx[j + 1] = 0
    /\ comp_len_per_ctx[LastRank + 1] > 0

----------------------------------------------------------------------------
(* compress_tokens *)

BottomPositions(scores, n) == PySlice(Argsort(IntKeys(scores)), 0, n)

\* for the comparison of positions by score
TopPositions(scores, n) == PySlice(Reverse(Argsort(IntKeys(scores))), 0, n)

\* int(batch_scores.shape[0] * token_lamb)
TargetLen(total, lamb) == (total * lamb.num) \div lamb.den

\* np.where(batch_token_ids[start:end] == 3)[0] + start
EmptyTokenIndices(ids, start, end) == {q \in start..(end - 1) : ids[q + 1] = 3}

\* faulty variant: the empty-span positions are not added
CurTargetIndicesNoUnion(sorted_targets, ids, start, end) ==
    SortAsc(SelectSeq(sorted_targets, LAMBDA q : q >= start /\ q < end))

\* cur_target_indices of one passage: the top positions in [start, end) and
\* the positions of id 3 there, ascending
CurTargetIndices(sorted_targets, ids, start, end) ==
    LET top == {q \in Range(sorted_targets) : q >= start /\ q < end}
        both == top \cup EmptyTokenIndices(ids, start, end)
    IN  SortAsc(SelectSeq([q \in 1..(end - start) |-> start + q - 1], LAMBDA q : q \in both))

\* faulty variant: nothing is filtered
FilterIdsKeepAll(ids) == ids

\* new_batch_token_ids[new_batch_token_ids != 2]
FilterIds(ids) == SelectSeq(ids, LAMBDA x : x # 2)

AllScores == Concat(batch_scores)
AllIds == Concat(batch_token_ids)

\* lines 465-475
TokPrepare ==
    /\ pc = "tok_prepare"
    /\ target_len' = TargetLen(Len(AllScores), args.token_lamb)
    /\ sorted_target_indices' =
          SortAsc(TopPositions(AllScores, TargetLen(Len(AllScores), args.token_lamb)))
    /\ cur_target_indices' = <<>>
    /\ new_batch_token_ids_filtered' = <<>>
    /\ cursor' = 0
    /\ pc' = IF ctxs = <<>> \/ batch_scores = <<>> THEN "tok_done" ELSE "tok_loop"
    /\ UNCHANGED <<err, args, encode_fails, ctxs, org_ctxs, batch_scores, batch_token_ids, ctxVars, sentVars>>

\* one iteration of "for cum_len, ctx in zip(cum_len_list, ctxs)"
TokStep ==
    /\ pc = "tok_loop"
    /\ LET cum == CumLens([k \in DOMAIN batch_scores |-> Len(batch_scores[k])])
           start == IF cursor = 0 THEN 0 ELSE cum[cursor]
           end == cum[cursor + 1]
           cur == CurTargetIndices(sorted_target_indices, AllIds, start, end)
           new_batch_token_ids == [k \in DOMAIN cur |-> AllIds[cur[k] + 1]]
           filtered == FilterIds(new_batch_token_ids)
           tok_comp_text == CollapseSpaces(Decode(filtered))
       IN  /\ cur_target_indices' = Append(cur_target_indices, cur)
           /\ new_batch_token_ids_filtered' = Append(new_batch_token_ids_filtered, filtered)
           /\ ctxs' = [ctxs EXCEPT ![cursor + 1].text = tok_comp_text]
    /\ cursor' = cursor + 1
    /\ pc' = IF cursor + 1 = Min(Len(batch_scores), Len(ctxs)) THEN "tok_done" ELSE "tok_loop"
    /\ UNCHANGED <<err, args, encode_fails, org_ctxs, batch_scores, batch_token_ids, ctxVars, target_len,
                   sorted_target_indices, sentVars>>

MaxTok == 2            \* tokens per passage in the inputs of compress_tokens

TokCtxCounts == {1, 2}
TokScores == {1, 2}
TokIds == {2, 3, WordId}
TokenLambs == {[num |-> 0, den |-> 1], [num |-> 1, den |-> 2], [num |-> 1, den |-> 1]}

InitTok ==
    /\ encode_fails = {}
    /\ pc = "tok_prepare"
    /\ err = "none"
    /\ \E lamb \in TokenLambs : args = [DefaultArgs EXCEPT !.token_lamb = lamb]
    /\ \E n \in TokCtxCounts : \E lens \in [1..n -> 0..MaxTok] :
        /\ batch_scores \in {r \in [1..n -> UNION {[1..m -> TokScores] : m \in 0..MaxTok}] :
                                \A i \in 1..n : Len(r[i]) = lens[i]}
        /\ batch_token_ids \in {r \in [1..n -> UNION {[1..m -> TokIds] : m \in 0..MaxTok}] :
                                \A i \in 1..n : Len(r[i]) = lens[i]}
        /\ ctxs = [i \in 1..n |-> Passage(i, "t", Decode(batch_token_ids[i]))]
    /\ org_ctxs = ctxs
    /\ CtxIdle
    /\ cursor = 0
    /\ TokIdle
    /\ SentIdle

NextTok ==
    \/ TokPrepare
    \/ TokStep

SpecTok == InitTok /\ [][NextTok]_vars

----------------------------------------------------------------------------
(* Properties of compress_tokens *)

TokRunning == pc \in {"tok_loop", "tok_done"}

\* the positions of passage k (1-based) in the concatenated array
PositionsOf(k) ==
    LET cum == CumLens([j \in DOMAIN batch_scores |-> Len(batch_scores[j])])
    IN  (IF k = 1 THEN 0 ELSE cum[k - 1])..(cum[k] - 1)

\* C6: every position whose token id is the empty-span id 3 is among the
\* positions retained for its passage, and its id is among the ids decoded,
\* whatever token_lamb and the scores are.
C6_SentinelRetained ==
    TokRunning =>
        \A k \in DOMAIN cur_target_indices : \A q \in PositionsOf(k) :
            AllIds[q + 1] = 3 =>
                /\ q \in Range(cur_target_indices[k])
                /\ 3 \in Range(new_batch_token_ids_filtered[k])

\* an empty-span position outside the top target_len positions is retained
C6_Witness ==
    /\ pc = "tok_done"
    /\ \E k \in DOMAIN cur_target_indices : \E q \in PositionsOf(k) :
        /\ AllIds[q + 1] = 3
        /\ q \notin Range(sorted_target_indices)
        /\ \E q2 \in PositionsOf(k) : q2 \in Range(sorted_target_indices) /\ AllIds[q2 + 1] # 3

Retained == UNION {Range(cur_target_indices[k]) : k \in DOMAIN cur_target_indices}

\* the positions of the passages processed so far
Processed == UNION {PositionsOf(k) : k \in DOMAIN cur_target_indices}

Sentinels == {q \in 0..(Len(AllIds) - 1) : AllIds[q + 1] = 3}

\* C22: target_len is floor(total * token_lamb) over the concatenation; the
\* selected positions are target_len positions none of which scores below a
\* position left out; every passage retains, in ascending order, exactly the
\* selected positions and the id-3 positions of its own offset range; in the
\* end the retained positions number at least target_len and at most
\* target_len plus the number of id-3 positions.
C22_TopTargetLenPlusSentinels ==
    TokRunning =>
        LET top == Range(sorted_target_indices)
        IN  /\ target_len * args.token_lamb.den <= Len(AllScores) * args.token_lamb.num
            /\ (target_len + 1) * args.token_lamb.den > Len(AllScores) * args.token_lamb.num
            /\ Cardinality(top) = target_len
            /\ top \subseteq 0..(Len(AllScores) - 1)
            /\ \A q \in top : \A q2 \in (0..(Len(AllScores) - 1)) \ top :
                  AllScores[q + 1] >= AllScores[q2 + 1]
            /\ \A k \in DOMAIN cur_target_indices :
                  /\ Range(cur_target_indices[k]) = (top \cup Sentinels) \cap PositionsOf(k)
                  /\ StrictlyAscending(cur_target_indices[k])
            /\ pc = "tok_done" =>
                  /\ Retained = top \cup Sentinels
                  /\ Cardinality(Retained) >= target_len
                  /\ Cardinality(Retained) <= target_len + Cardinality(Sentinels)

\* three tokens in two passages and token_lamb 1/2: one position selected,
\* one id-3 position retained next to it and one position left out
C22_Witness ==
    /\ pc = "tok_done"
    /\ Len(cur_target_indices) = 2
    /\ Len(AllScores) = 3
    /\ target_len = 1
    /\ Cardinality(Retained) = 2
    /\ Retained \cap Sentinels # {}
    /\ \E q \in Range(sorted_target_indices) : \E q2 \in Processed \ Retained :
          AllScores[q + 1] > AllScores[q2 + 1]

----------------------------------------------------------------------------
(* The three stages in sequence: the passages, rows and selected indices    *)
(* that compress_contexts returns go to compress_sentences, and the arrays  *)
(* and passages that compress_sentences returns go to compress_tokens.      *)

PipeToSentences ==
    /\ pc = "ctx_done"
    /\ pc' = "sent_prepare"
    /\ ctx_indices_sorted' = ctx_indices
    /\ UNCHANGED <<err, args, encode_fails, ctxs, org_ctxs, batch_scores, batch_token_ids, ctx_scores,
                   ctx_indices, len_total, cursor, tokVars, sentVars>>

PipeToTokens ==
    /\ pc = "sent_done"
    /\ pc' = "tok_prepare"
    /\ batch_scores' = new_scores_ctxs
    /\ batch_token_ids' = new_token_ids_ctxs
    /\ UNCHANGED <<err, args, encode_fails, ctxs, org_ctxs, ctxVars, cursor, tokVars, sentVars>>

MaxPipeCtx == 3        \* passages per run of the three stages

\* text, sentence-score order, added to every content-token score
PipePool ==
    { [text |-> <<"a", ".">>, order |-> "flat", base |-> 3],
      [text |-> <<"a", ".", " ", "a", ".">>, order |-> "up", base |-> 0],
      [text |-> <<"a", ".", " ", "a", " ", "a", ".">>, order |-> "down", base |-> 1] }

PipeCtxArgs ==
    {[DefaultArgs EXCEPT !.ctx_comp_len = cl, !.comp_sent = cs] :
        cl \in {6, 20}, cs \in BOOLEAN}
    \cup {[DefaultArgs EXCEPT !.ctx_score_cumsum = <<2>>]}

PipeArgs ==
    {[a EXCEPT !.do_sort_ctx = ds, !.sent_comp_len = scl, !.constraint_1_sent = c1,
               !.token_lamb = lamb] :
        a \in PipeCtxArgs, ds \in BOOLEAN, scl \in {0, 4}, c1 \in BOOLEAN,
        lamb \in {[num |-> 1, den |-> 2], [num |-> 1, den |-> 1]}}

InitPipe ==
    /\ encode_fails = {}
    /\ pc = "ctx_scores"
    /\ err = "none"
    /\ args \in PipeArgs
    /\ \E n \in 0..MaxPipeCtx : \E ps \in [1..n -> PipePool] :
        /\ ctxs = [i \in 1..n |-> Passage(i, "t", ps[i].text)]
        /\ batch_scores = [i \in 1..n |->
              ScoreRow("t",
                       [k \in 1..ScoreTokLen(ps[i].text) |->
                           ps[i].base + ContentScores(ps[i].text, ps[i].order)[k]],
                       ps[i].base + 1)]
        /\ batch_token_ids = [i \in 1..n |-> IdRow("t", ScoreTokIds(ps[i].text))]
    /\ org_ctxs = ctxs
    /\ CtxIdle
    /\ cursor = 0
    /\ TokIdle
    /\ SentIdle

NextPipe ==
    \/ CtxScores
    \/ CtxPercentile
    \/ CtxGreedyStep
    \/ CtxReturn
    \/ PipeToSentences
    \/ SentPrepare
    \/ SentStep
    \/ SentReturn
    \/ PipeToTokens
    \/ TokPrepare
    \/ TokStep

SpecPipe == InitPipe /\ [][NextPipe]_vars

AfterSelection ==
    pc \in {"ctx_done", "sent_prepare", "sent_loop", "sent_return", "sent_done",
            "tok_prepare", "tok_loop", "tok_done"}

\* C1: when do_sort_ctx is false, the org_idx sequence of the passages that
\* come out of context selection, then sentence selection, then token selection
\* is a subsequence of the input org_idx sequence, in the original relative
\* order.
C1_OrderPreserved ==
    (~args.do_sort_ctx /\ AfterSelection) =>
        IsSubsequence(OrgIdxSeq(ctxs), OrgIdxSeq(org_ctxs))

\* the three stages ran on three passages, all selected in a score order that
\* is not the input order; sentence selection removed one, and the two that
\* come out are in input order
C1_Witness ==
    /\ pc = "tok_done"
    /\ ~args.do_sort_ctx
    /\ Len(org_ctxs) = 3
    /\ Len(ctx_indices) = 3
    /\ ctx_indices[1] > ctx_indices[2]
    /\ Len(ctxs) = 2
    /\ ctxs[1].org_idx < ctxs[2].org_idx

====
